---- MODULE Spec2Model ----
(***************************************************************************)
(* Continuation.continuation of tmdsimpy/continuation.py as a state        *)
(* machine: one action per stretch of code between two returns of          *)
(* solver.nsolve.  The residual function fun is a fixed smooth one-unknown *)
(* problem with a turning point; solver.nsolve is an oracle that either    *)
(* converges to the neighbouring root in the predicted direction or fails  *)
(* and hands back a non-converged iterate.                                 *)
(*                                                                         *)
(* Numbers.  Step sizes (ds, dsmin, dsmax, FracLam, MaxIncrease) are exact *)
(* rationals <<n, d>>, d > 0, in lowest terms.  Points and directions are  *)
(* records [nan, x, lam] with integer entries; a direction stands for the  *)
(* unit vector of predict() up to the positive factor 1/sqrt(step_sq),     *)
(* which changes no sign and no comparison taken by the code.              *)
(***************************************************************************)
EXTENDS Integers, Sequences, FiniteSets, TLC

VARIABLES config, setCtoPto1, CtoP, CtoP0, lam0, lam1, pc, silent, direct,
          step, XlamP_full, XlamP0, XlamPprev, dirC, ds, fracLam_ind, sol,
          XlamC, calls, rowOk, nsolveCalls, predictCalls, dsEntry, dirCEntry,
          ctor_ds0, userKeys, allConverged,
          solver, ns, rough, jenkins, feCall, hu

\* the fields and locals of Continuation and Continuation.continuation
contVars == <<config, setCtoPto1, CtoP, CtoP0, lam0, lam1, pc, silent, direct,
              step, XlamP_full, XlamP0, XlamPprev, dirC, ds, fracLam_ind, sol,
              XlamC, calls, rowOk, nsolveCalls, predictCalls, dsEntry,
              dirCEntry, ctor_ds0, userKeys, allConverged>>

\* a NonlinearSolverOMP object and the frame of one nsolve call
solverVars == <<solver, ns>>

\* a RoughContactFriction object, a JenkinsForce object, the last call made
elementVars == <<rough, jenkins, feCall>>

\* one call of a function of harmonic_utils
hutilsVars == <<hu>>

vars == <<contVars, solverVars, elementVars, hutilsVars>>

----------------------------------------------------------------------------
(* Bounds of the model *)

\* largest MaxSteps a run is configured with
MaxStepsBound == 3
\* largest unknown X of the grid on which the solution curve is sampled
GridMax == 5

----------------------------------------------------------------------------
(* Exact rational arithmetic for the float step-size computations *)

Abs(i) == IF i < 0 THEN -i ELSE i

Sgn(i) == IF i > 0 THEN 1 ELSE IF i < 0 THEN -1 ELSE 0

RECURSIVE Gcd(_, _)
Gcd(a, b) == IF b = 0 THEN a ELSE Gcd(b, a % b)

RNorm(r) ==
    LET g == Gcd(Abs(r[1]), r[2])
    IN  <<r[1] \div g, r[2] \div g>>

Rat(n, d) == RNorm(<<n, d>>)

RMul(a, b) == RNorm(<<a[1] * b[1], a[2] * b[2]>>)

RLt(a, b) == a[1] * b[2] < b[1] * a[2]

RLe(a, b) == a[1] * b[2] <= b[1] * a[2]

\* Python's max(a, b) and min(a, b): the first argument wins a tie
RMax(a, b) == IF RLt(a, b) THEN b ELSE a

RMin(a, b) == IF RLt(b, a) THEN b ELSE a

----------------------------------------------------------------------------
(* Vectors Xlam = (X, lam) with one unknown X *)

Vec(x, l) == [nan |-> FALSE, x |-> x, lam |-> l]

\* a vector all of whose entries are numpy.nan
NaNVec == [nan |-> TRUE, x |-> 0, lam |-> 0]

\* v * numpy.nan
TimesNaN(v) == NaNVec

\* elementwise v * CtoP
TimesCtoP(v, C) == IF v.nan THEN NaNVec ELSE Vec(v.x * C[1], v.lam * C[2])

VSub(a, b) == IF a.nan \/ b.nan THEN NaNVec ELSE Vec(a.x - b.x, a.lam - b.lam)

IMax(a, b) == IF a >= b THEN a ELSE b

----------------------------------------------------------------------------
(* The residual function fun(XlamP) -> (R, dRdX, dRdlam) handed to         *)
(* continuation(): R(X, lam) = lam + 4 X^2 - 22 X + 18, whose solution     *)
(* curve lam = -4 X^2 + 22 X - 18 passes (1,0), (2,10), (3,12), (4,6),     *)
(* (5,-8) and turns back in lam between X = 2 and X = 3.  X = 0 is left    *)
(* out: predict() divides by norm(X/CtoP)**2.                              *)

GridX == 1..GridMax

CurveLam(x) == 22 * x - 4 * x * x - 18

dRdX(x, l) == 8 * x - 22

dRdlam(x, l) == 1

\* the solutions of fun at a fixed lam (the initial solve drops the lam column)
RootsAt(l) == {Vec(x, l) : x \in {y \in GridX : CurveLam(y) = l}}

----------------------------------------------------------------------------
(* solver.nsolve as continuation() sees it: (X, R, dRdX, sol) with sol     *)
(* holding 'success' and 'nfev'.  nfev counts the iterations started, at   *)
(* least one.  A solve started from NaN stops on the first evaluation.     *)

\* numbers of function evaluations a solve may report
Nfevs == {10, 40}

\* what a failed solve reports: it ran out of iterations
NfevFail == {40}

\* non-converged iterates a failed solve may hand back (off the curve)
FailIterates == {Vec(3, 1)}

nsolve(start, roots) ==
    IF start.nan
    THEN {[success |-> FALSE, nfev |-> 1, X |-> NaNVec]}
    ELSE {[success |-> TRUE, nfev |-> n, X |-> r] : n \in Nfevs, r \in roots}
         \cup {[success |-> FALSE, nfev |-> n, X |-> p] :
                  n \in NfevFail, p \in FailIterates}

----------------------------------------------------------------------------
(* Continuation.__init__ *)

TargetNfevDefault == 20

MaxStepsDefault == 500

VerboseDefault == 100

\* ds0=0.01 of the signature
Ds0Default == Rat(1, 100)

\* numpy.inf as a value of backtrackStop
Inf == [inf |-> TRUE, val |-> 0]

Fin(v) == [inf |-> FALSE, val |-> v]

\* (variant) the defaults of dsmax and dsmin exchanged
default_config_swapped(ds0arg) ==
    [FracLam |-> Rat(1, 2),
     ds0 |-> ds0arg,
     dsmax |-> RMul(ds0arg, Rat(1, 5)),
     dsmin |-> RMul(Rat(5, 1), ds0arg),
     MaxSteps |-> MaxStepsDefault,
     TargetNfev |-> TargetNfevDefault,
     DynamicCtoP |-> FALSE,
     verbose |-> VerboseDefault,
     corrector |-> "Ortho",
     FracLamList |-> <<>>,
     backtrackStop |-> Inf,
     MaxIncrease |-> Rat(6, 5),
     callback |-> FALSE]

default_config(ds0arg) ==
    [FracLam |-> Rat(1, 2),
     ds0 |-> ds0arg,
     dsmax |-> RMul(Rat(5, 1), ds0arg),
     dsmin |-> RMul(ds0arg, Rat(1, 5)),
     MaxSteps |-> MaxStepsDefault,
     TargetNfev |-> TargetNfevDefault,
     DynamicCtoP |-> FALSE,
     verbose |-> VerboseDefault,
     corrector |-> "Ortho",
     FracLamList |-> <<>>,
     backtrackStop |-> Inf,
     MaxIncrease |-> Rat(6, 5),
     callback |-> FALSE]

\* for key in config.keys(): default_config[key] = config[key]
Merge(d, c) ==
    [k \in DOMAIN d \cup DOMAIN c |-> IF k \in DOMAIN c THEN c[k] ELSE d[k]]

\* (variant) FracLam put behind the values of the list
InsertFracLam_append(c) ==
    IF Len(c.FracLamList) = 0 \/ ~(c.FracLamList[1] = c.FracLam)
    THEN [c EXCEPT !.FracLamList = c.FracLamList \o <<c.FracLam>>]
    ELSE c

\* FracLamList.insert(0, FracLam) unless the list already starts with it
InsertFracLam(c) ==
    IF Len(c.FracLamList) = 0 \/ ~(c.FracLamList[1] = c.FracLam)
    THEN [c EXCEPT !.FracLamList = <<c.FracLam>> \o c.FracLamList]
    ELSE c

Continuation_init(ds0arg, user) == InsertFracLam(Merge(default_config(ds0arg), user))

\* self.CtoP = np.abs(CtoP)
AbsCtoP(C) == <<Abs(C[1]), Abs(C[2])>>

----------------------------------------------------------------------------
(* Continuation.predict *)

\* sign of signarg = c*dirC[:-1] @ dXlamCprev[:-1] + b*dirC[-1]*dXlamCprev[-1]
\* with c = (1-b)/norm(XlamP0[:-1]/CtoP[:-1])**2 and dXlamCprev =
\* (XlamP0 - XlamPprev)/CtoP, cleared of the positive denominators
\* b[2] * XlamP0.x^2 * CtoP[2].
SignArg(d, P0, Pprev, C, b) ==
    Sgn((b[2] - b[1]) * C[1] * C[2] * d.x * (P0.x - Pprev.x)
        + b[1] * P0.x * P0.x * d.lam * (P0.lam - Pprev.lam))

\* (variant) the direction of lin_solve kept as it comes, never flipped
PredictSign_keep(d, P0, Pprev, C, b) == 1

\* if sign == 0: sign = 1
PredictSign(d, P0, Pprev, C, b) ==
    IF SignArg(d, P0, Pprev, C, b) = 0 THEN 1 ELSE SignArg(d, P0, Pprev, C, b)

\* lin_solve of [[dRdXP*CtoP[0], dRdlamP*CtoP[1]], dirC_prev] dirC = [0, 1]:
\* dirC = (-row[2], row[1]) / det, NaN when the matrix is singular
LinSolveDir(P0, dprev, C) ==
    LET r1  == dRdX(P0.x, P0.lam) * C[1]
        r2  == dRdlam(P0.x, P0.lam) * C[2]
        det == r1 * dprev.lam - r2 * dprev.x
    IN  IF det = 0 THEN NaNVec ELSE Vec(Sgn(det) * (0 - r2), Sgn(det) * r1)

predict(P0, Pprev, dprev, C, b) ==
    IF P0.nan \/ Pprev.nan \/ dprev.nan THEN NaNVec
    ELSE LET d == LinSolveDir(P0, dprev, C)
         IN  IF d.nan THEN NaNVec
             ELSE LET sg == PredictSign(d, P0, Pprev, C, b)
                  IN  Vec(sg * d.x, sg * d.lam)

----------------------------------------------------------------------------
(* Continuation.correct_res and the corrector solve *)

Upper(s) ==
    CASE s \in {"Ortho", "ortho"} -> "ORTHO"
      [] s \in {"Pseudo", "pseudo"} -> "PSEUDO"
      [] OTHER -> s

\* correct_res reaches 'assert False, Invalid corrector type' for any other name
CorrectorValid(c) == Upper(c.corrector) \in {"PSEUDO", "ORTHO"}

\* the root of [RPtoC*R; Rarc] = 0 next to XlamP0 on the side dirC points to
CorrectorRoots(P0, d) ==
    IF P0.nan \/ d.nan THEN {}
    ELSE {Vec(x, CurveLam(x)) : x \in {y \in GridX : y = P0.x + Sgn(d.x)}}

\* XlamP0/self.CtoP + dirC*ds, as far as nsolve's outcome depends on it
CorrectorStart(P0, d) == IF d.nan THEN NaNVec ELSE P0

----------------------------------------------------------------------------
(* The pieces of the step loop of Continuation.continuation *)

Last == XlamP_full[step]

\* direct*XlamP_full[step-1,-1] < direct*lam1
BeforeLam1(l) == direct * l < direct * lam1

\* direct*XlamP_full[step-1,-1] > direct*(lam0-direct*backtrackStop)
InsideBacktrack(l, bt) ==
    IF bt.inf THEN direct # 0
    ELSE direct * l > direct * (lam0 - direct * bt.val)

\* (variant) the loop condition without its test against lam1
LoopCondition_nolam1 ==
    /\ step < config.MaxSteps
    /\ ~Last.nan
    /\ InsideBacktrack(Last.lam, config.backtrackStop)

LoopCondition ==
    /\ step < config.MaxSteps
    /\ ~Last.nan
    /\ BeforeLam1(Last.lam)
    /\ InsideBacktrack(Last.lam, config.backtrackStop)

\* (variant) the update without the floor CtoP0
DynamicCtoPUpdate_nofloor(last, C0) == <<Abs(last.x), Abs(last.lam)>>

\* (variant) np.minimum in place of np.maximum
DynamicCtoPUpdate_min(last, C0) ==
    <<IF Abs(last.x) < C0[1] THEN Abs(last.x) ELSE C0[1],
      IF Abs(last.lam) < C0[2] THEN Abs(last.lam) ELSE C0[2]>>

\* np.maximum(np.abs(XlamP_full[step-1]), self.CtoP0)
DynamicCtoPUpdate(last, C0) == <<IMax(Abs(last.x), C0[1]), IMax(Abs(last.lam), C0[2])>>

\* ds / 2
Half(d) == RMul(d, Rat(1, 2))

\* (variant) ds halved with no floor
RetryDs_nofloor(d, c) == Half(d)

\* (variant) ds left as it is
RetryDs_same(d, c) == d

\* ds = max(ds / 2, dsmin)
RetryDs(d, c) == RMax(Half(d), c.dsmin)

\* (variant) the step size grows by TargetNfev/nfev without the MaxIncrease cap
NextDs_nocap(d, nfev, c) ==
    RMin(RMax(RMul(d, Rat(c.TargetNfev, nfev)), c.dsmin), c.dsmax)

\* ds = ds*min(TargetNfev/nfev, MaxIncrease); ds = min(max(ds, dsmin), dsmax)
NextDs(d, nfev, c) ==
    RMin(RMax(RMul(d, RMin(Rat(c.TargetNfev, nfev), c.MaxIncrease)), c.dsmin),
         c.dsmax)

\* (variant) the assert at line 757 left out
InitialAbort_off(success) == FALSE

\* assert sol['success'], 'Failed to converge to initial point, ...'
InitialAbort(success) == ~success

\* if(not sol['success'] and not silent): break
BreakOnFailure(success, quiet) == ~success /\ ~quiet

LadderExhausted == fracLam_ind + 1 >= Len(config.FracLamList)

\* (variant) the callback skipped whenever the point is the NaN placeholder
Callback_skipnan(log, c, point, dir) ==
    IF c.callback /\ ~point.nan
    THEN Append(log, [XlamP |-> point, dirP |-> dir])
    ELSE log

Callback(log, c, point, dir) ==
    IF c.callback THEN Append(log, [XlamP |-> point, dirP |-> dir]) ELSE log

----------------------------------------------------------------------------
(* The calls Continuation(solver, ds0, CtoP, config=...) and               *)
(* continuation(fun, XlamP0, lam0, lam1) a run is started with             *)

\* choices of the step-size keys of the config dictionary
DsOptions == {"default", "ds0small", "limits"}

\* choices of the argument ds0: the default of the signature and a larger one
Ds0Args == {Ds0Default, Rat(1, 20)}

\* choices of FracLamList: absent, without and with FracLam as first entry
FracLamOptions == {"absent", "other", "same"}

UserKeys(dsOpt, verb, dyn, corr, cb, bt, fl) ==
    {"MaxSteps"}
    \cup (IF dsOpt = "ds0small" THEN {"ds0"} ELSE {})
    \cup (IF dsOpt = "limits" THEN {"dsmin", "dsmax"} ELSE {})
    \cup (IF verb # VerboseDefault THEN {"verbose"} ELSE {})
    \cup (IF dyn THEN {"DynamicCtoP"} ELSE {})
    \cup (IF corr # "Ortho" THEN {"corrector"} ELSE {})
    \cup (IF cb THEN {"callback"} ELSE {})
    \cup (IF ~bt.inf THEN {"backtrackStop"} ELSE {})
    \cup (IF fl # "absent" THEN {"FracLamList"} ELSE {})

UserConfig(dsOpt, verb, dyn, corr, cb, ms, bt, fl) ==
    [k \in UserKeys(dsOpt, verb, dyn, corr, cb, bt, fl) |->
        CASE k = "MaxSteps" -> ms
          [] k = "ds0" -> Rat(1, 1000)
          [] k = "dsmin" -> Rat(1, 200)
          [] k = "dsmax" -> Rat(1, 50)
          [] k = "verbose" -> verb
          [] k = "DynamicCtoP" -> dyn
          [] k = "corrector" -> corr
          [] k = "callback" -> cb
          [] k = "backtrackStop" -> bt
          [] k = "FracLamList" ->
                IF fl = "other" THEN <<Rat(3, 4)>> ELSE <<Rat(1, 2), Rat(3, 4)>>]

\* A specification runs one part of the package; the other parts stay off.
SolverOff == solver = [pc |-> "off"] /\ ns = [pc |-> "off"]

ElementOff ==
    /\ rough = [pc |-> "off"]
    /\ jenkins = [pc |-> "off"]
    /\ feCall = [pc |-> "off"]

HutilsOff == hu = [pc |-> "off"]

ContinuationOff ==
    /\ config = [pc |-> "off"]
    /\ setCtoPto1 = FALSE
    /\ CtoP = <<0, 0>>
    /\ CtoP0 = <<0, 0>>
    /\ lam0 = 0
    /\ lam1 = 0
    /\ pc = "off"
    /\ silent = FALSE
    /\ direct = 0
    /\ step = 0
    /\ XlamP_full = <<>>
    /\ XlamP0 = [nan |-> FALSE, x |-> 0, lam |-> 0]
    /\ XlamPprev = [nan |-> FALSE, x |-> 0, lam |-> 0]
    /\ dirC = [nan |-> FALSE, x |-> 0, lam |-> 0]
    /\ ds = <<0, 1>>
    /\ fracLam_ind = 0
    /\ sol = [success |-> FALSE, nfev |-> 0]
    /\ XlamC = [nan |-> FALSE, x |-> 0, lam |-> 0]
    /\ calls = <<>>
    /\ rowOk = <<>>
    /\ nsolveCalls = 0
    /\ predictCalls = 0
    /\ dsEntry = <<0, 1>>
    /\ dirCEntry = Vec(0, 0)
    /\ ctor_ds0 = <<0, 1>>
    /\ userKeys = {}
    /\ allConverged = TRUE

\* (lam0, lam1): upwards to a value on the curve, upwards to a value beyond
\* the turning point, downwards, and lam1 = lam0
LamPairs == {<<0, 12>>, <<12, 13>>, <<12, 6>>, <<6, 6>>}

Init ==
    /\ \E dsOpt \in DsOptions, verb \in {0 - 1, VerboseDefault}, dyn \in BOOLEAN,
          corr \in {"Ortho", "pseudo", "invalid"}, cb \in BOOLEAN,
          ms \in 1..MaxStepsBound, bt \in {Inf, Fin(1)}, fl \in FracLamOptions,
          d0 \in Ds0Args :
          /\ ctor_ds0 = d0
          /\ userKeys = UserKeys(dsOpt, verb, dyn, corr, cb, bt, fl)
          /\ config = Continuation_init(d0,
                          UserConfig(dsOpt, verb, dyn, corr, cb, ms, bt, fl))
    /\ \E C \in {<<>>, <<0 - 2, 1>>} :
          /\ setCtoPto1 = (C = <<>>)
          /\ CtoP = IF C = <<>> THEN <<0, 0>> ELSE AbsCtoP(C)
    /\ CtoP0 = <<0, 0>>
    /\ \E p \in LamPairs : lam0 = p[1] /\ lam1 = p[2]
    /\ pc = "init"
    /\ silent = FALSE
    /\ direct = 0
    /\ step = 0
    /\ XlamP_full = <<>>
    /\ XlamP0 = Vec(1, 0)
    /\ XlamPprev = Vec(1, 0)
    /\ dirC = Vec(0, 0)
    /\ ds = config.ds0
    /\ fracLam_ind = 0
    /\ sol = [success |-> FALSE, nfev |-> 0]
    /\ XlamC = Vec(1, 0)
    /\ calls = <<>>
    /\ rowOk = <<>>
    /\ nsolveCalls = 0
    /\ predictCalls = 0
    /\ dsEntry = config.ds0
    /\ dirCEntry = Vec(0, 0)
    /\ allConverged = TRUE
    /\ SolverOff
    /\ ElementOff
    /\ HutilsOff

----------------------------------------------------------------------------
(* Continuation.continuation *)

\* lines 712-786: the initial solve at lam0 and the set-up of the step loop
InitialSolve ==
    /\ pc = "init"
    /\ \E r \in nsolve(XlamP0, RootsAt(lam0)) :
          LET C == IF setCtoPto1 THEN <<1, 1>> ELSE CtoP
              quiet == config.verbose < 0
              dir == Sgn(lam1 - lam0)
              P == Vec(r.X.x, lam0)
              prev == Vec(r.X.x, lam0 - dir)
          IN  /\ silent' = quiet
              /\ config' = IF quiet THEN [config EXCEPT !.verbose = 0] ELSE config
              /\ CtoP' = C
              /\ sol' = [success |-> r.success, nfev |-> r.nfev]
              /\ nsolveCalls' = nsolveCalls + 1
              /\ allConverged' = (allConverged /\ r.success)
              /\ IF InitialAbort(r.success)
                 THEN /\ pc' = "abort_initial"
                      /\ UNCHANGED <<CtoP0, direct, step, XlamP_full, XlamP0,
                                     XlamPprev, dirC, ds, calls, rowOk>>
                 ELSE /\ pc' = "loop"
                      /\ calls' = Callback(calls, config, P, TimesNaN(P))
                      /\ direct' = dir
                      /\ XlamPprev' = prev
                      /\ step' = 1
                      /\ XlamP0' = P
                      /\ XlamP_full' = <<P>>
                      /\ rowOk' = <<TRUE>>
                      /\ dirC' = VSub(P, prev)
                      /\ CtoP0' = IF config.DynamicCtoP THEN C ELSE CtoP0
                      /\ ds' = config.ds0
    /\ UNCHANGED <<setCtoPto1, lam0, lam1, fracLam_ind, XlamC, predictCalls,
                   dsEntry, dirCEntry, ctor_ds0, userKeys>>
    /\ UNCHANGED <<solverVars, elementVars, hutilsVars>>

\* lines 788-795: the loop condition holds; dynamic conditioning update
StepBegin ==
    /\ pc = "loop"
    /\ LoopCondition
    /\ CtoP' = IF config.DynamicCtoP THEN DynamicCtoPUpdate(Last, CtoP0) ELSE CtoP
    /\ fracLam_ind' = 0
    /\ dsEntry' = ds
    /\ dirCEntry' = dirC
    /\ pc' = "predict"
    /\ UNCHANGED <<config, setCtoPto1, CtoP0, lam0, lam1, silent, direct, step,
                   XlamP_full, XlamP0, XlamPprev, dirC, ds, sol, XlamC, calls,
                   rowOk, nsolveCalls, predictCalls, ctor_ds0, userKeys,
                   allConverged>>
    /\ UNCHANGED <<solverVars, elementVars, hutilsVars>>

\* lines 788-790: the loop condition fails
LoopExit ==
    /\ pc = "loop"
    /\ ~LoopCondition
    /\ pc' = "final"
    /\ UNCHANGED <<config, setCtoPto1, CtoP, CtoP0, lam0, lam1, silent, direct,
                   step, XlamP_full, XlamP0, XlamPprev, dirC, ds, fracLam_ind,
                   sol, XlamC, calls, rowOk, nsolveCalls, predictCalls, dsEntry,
                   dirCEntry,
                   ctor_ds0, userKeys, allConverged>>
    /\ UNCHANGED <<solverVars, elementVars, hutilsVars>>

\* lines 797-814: one FracLam value: predict, then the first corrector solve
Attempt ==
    /\ pc = "predict"
    /\ LET b == config.FracLamList[fracLam_ind + 1]
           d == predict(XlamP0, XlamPprev, dirC, CtoP, b)
       IN  /\ config' = [config EXCEPT !.FracLam = b]
           /\ dirC' = d
           /\ predictCalls' = predictCalls + 1
           /\ nsolveCalls' = nsolveCalls + 1
           /\ IF ~CorrectorValid(config)
              THEN /\ pc' = "abort_corrector"
                   /\ UNCHANGED <<sol, XlamC, allConverged>>
              ELSE /\ pc' = "solved"
                   /\ \E r \in nsolve(CorrectorStart(XlamP0, d),
                                      CorrectorRoots(XlamP0, d)) :
                         /\ sol' = [success |-> r.success, nfev |-> r.nfev]
                         /\ XlamC' = r.X
                         /\ allConverged' = (allConverged /\ r.success)
    /\ UNCHANGED <<setCtoPto1, CtoP, CtoP0, lam0, lam1, silent, direct, step,
                   XlamP_full, XlamP0, XlamPprev, ds, fracLam_ind, calls, rowOk,
                   dsEntry, dirCEntry, ctor_ds0, userKeys>>
    /\ UNCHANGED <<solverVars, elementVars, hutilsVars>>

\* lines 817-830: the corrector failed and ds > dsmin: halve ds, solve again
Retry ==
    /\ pc = "solved"
    /\ ~sol.success
    /\ RLt(config.dsmin, ds)
    /\ ds' = RetryDs(ds, config)
    /\ nsolveCalls' = nsolveCalls + 1
    /\ \E r \in nsolve(CorrectorStart(XlamP0, dirC), CorrectorRoots(XlamP0, dirC)) :
          /\ sol' = [success |-> r.success, nfev |-> r.nfev]
          /\ XlamC' = r.X
          /\ allConverged' = (allConverged /\ r.success)
    /\ UNCHANGED <<config, setCtoPto1, CtoP, CtoP0, lam0, lam1, pc, silent, direct,
                   step, XlamP_full, XlamP0, XlamPprev, dirC, fracLam_ind, calls,
                   rowOk, predictCalls, dsEntry, dirCEntry, ctor_ds0, userKeys>>
    /\ UNCHANGED <<solverVars, elementVars, hutilsVars>>

\* (variant) the next FracLam value tried with the ds of the entry to the step
LadderNext_reset ==
    /\ pc = "solved"
    /\ ~sol.success
    /\ ~RLt(config.dsmin, ds)
    /\ ~LadderExhausted
    /\ fracLam_ind' = fracLam_ind + 1
    /\ ds' = dsEntry
    /\ pc' = "predict"
    /\ UNCHANGED <<config, setCtoPto1, CtoP, CtoP0, lam0, lam1, silent, direct,
                   step, XlamP_full, XlamP0, XlamPprev, dirC, sol, XlamC,
                   calls, rowOk, nsolveCalls, predictCalls, dsEntry, dirCEntry,
                   ctor_ds0, userKeys, allConverged>>
    /\ UNCHANGED <<solverVars, elementVars, hutilsVars>>

\* lines 797, 832-837: the corrector failed at ds <= dsmin: next FracLam value
LadderNext ==
    /\ pc = "solved"
    /\ ~sol.success
    /\ ~RLt(config.dsmin, ds)
    /\ ~LadderExhausted
    /\ fracLam_ind' = fracLam_ind + 1
    /\ pc' = "predict"
    /\ UNCHANGED <<config, setCtoPto1, CtoP, CtoP0, lam0, lam1, silent, direct,
                   step, XlamP_full, XlamP0, XlamPprev, dirC, ds, sol, XlamC,
                   calls, rowOk, nsolveCalls, predictCalls, dsEntry, dirCEntry,
                   ctor_ds0, userKeys, allConverged>>
    /\ UNCHANGED <<solverVars, elementVars, hutilsVars>>

\* lines 841-843: every FracLam value failed: leave the step loop
StepFail ==
    /\ pc = "solved"
    /\ ~sol.success
    /\ ~RLt(config.dsmin, ds)
    /\ LadderExhausted
    /\ BreakOnFailure(sol.success, silent)
    /\ pc' = "final"
    /\ UNCHANGED <<config, setCtoPto1, CtoP, CtoP0, lam0, lam1, silent, direct,
                   step, XlamP_full, XlamP0, XlamPprev, dirC, ds, fracLam_ind,
                   sol, XlamC, calls, rowOk, nsolveCalls, predictCalls, dsEntry,
                   dirCEntry,
                   ctor_ds0, userKeys, allConverged>>
    /\ UNCHANGED <<solverVars, elementVars, hutilsVars>>

\* lines 845-867: store the point, adapt ds, call back, advance
StepStore ==
    /\ pc = "solved"
    /\ sol.success \/ (~RLt(config.dsmin, ds) /\ LadderExhausted)
    /\ ~BreakOnFailure(sol.success, silent)
    /\ XlamP_full' = Append(XlamP_full, XlamC)
    /\ rowOk' = Append(rowOk, sol.success)
    /\ ds' = NextDs(ds, sol.nfev, config)
    /\ calls' = Callback(calls, config, XlamC, TimesCtoP(dirC, CtoP))
    /\ XlamPprev' = XlamP0
    /\ XlamP0' = XlamC
    /\ step' = step + 1
    /\ pc' = "loop"
    /\ UNCHANGED <<config, setCtoPto1, CtoP, CtoP0, lam0, lam1, silent, direct,
                   dirC, fracLam_ind, sol, XlamC, nsolveCalls, predictCalls,
                   dsEntry, dirCEntry, ctor_ds0, userKeys, allConverged>>
    /\ UNCHANGED <<solverVars, elementVars, hutilsVars>>

\* lines 871-894: truncate the history, final callback, return
Finish ==
    /\ pc = "final"
    /\ LET again == config.callback /\ sol.success
           d == IF again THEN predict(XlamP0, XlamPprev, dirC, CtoP, config.FracLam)
                ELSE dirC
       IN  /\ dirC' = d
           /\ predictCalls' = IF again THEN predictCalls + 1 ELSE predictCalls
           /\ calls' = Callback(calls, config, TimesNaN(d), TimesCtoP(d, CtoP))
    /\ pc' = "done"
    /\ UNCHANGED <<config, setCtoPto1, CtoP, CtoP0, lam0, lam1, silent, direct,
                   step, XlamP_full, XlamP0, XlamPprev, ds, fracLam_ind, sol,
                   XlamC, rowOk, nsolveCalls, dsEntry, dirCEntry, ctor_ds0, userKeys,
                   allConverged>>
    /\ UNCHANGED <<solverVars, elementVars, hutilsVars>>

Next ==
    \/ InitialSolve
    \/ StepBegin
    \/ LoopExit
    \/ Attempt
    \/ Retry
    \/ LadderNext
    \/ StepFail
    \/ StepStore
    \/ Finish

Spec == Init /\ [][Next]_vars

----------------------------------------------------------------------------
(* Claims about Continuation.continuation *)

Rows == 1..Len(XlamP_full)

\* the step has failed for every FracLam value even at ds = dsmin
StepHasFailed ==
    pc = "solved" /\ ~sol.success /\ ~RLt(config.dsmin, ds) /\ LadderExhausted

\* C1: for every value of verbose, when a step fails for every FracLam value
\* even at ds = dsmin the run stops there: the next thing that happens is the
\* end of the loop with the path unchanged, and no row of the path and no
\* callback point comes from a solve that reported success=False.
C1_FailedStepStopsRun ==
    /\ \A i \in 1..Len(rowOk) : rowOk[i]
    /\ StepHasFailed => ~ENABLED StepStore

\* C2: a failed initial solve aborts the call: no path, no predictor or
\* corrector solve (the initial solve is the only nsolve call), no callback.
C2_InitialFailureAborts ==
    /\ [][(pc = "init" /\ ~sol'.success) => pc' = "abort_initial"]_vars
    /\ [](pc = "abort_initial" =>
             /\ ~sol.success
             /\ XlamP_full = <<>>
             /\ calls = <<>>
             /\ predictCalls = 0
             /\ nsolveCalls = 1
             /\ ~ENABLED Next)

C2_Witness == pc = "abort_initial" /\ config.callback

\* C3: with a corrector that is neither 'Ortho' nor 'Pseudo' the call fails
\* before any solve: nsolve is never called, fun never evaluated (neither by
\* a solve nor by predict), the callback never invoked, and the call does
\* not return a path.
C3_InvalidCorrectorFailsFast ==
    ~CorrectorValid(config) =>
        /\ nsolveCalls = 0
        /\ predictCalls = 0
        /\ calls = <<>>
        /\ pc # "done"

\* lam is strictly before lam1 in the direction sign(lam1 - lam0)
C4_Before(v) == ~v.nan /\ Sgn(lam1 - lam0) * v.lam < Sgn(lam1 - lam0) * lam1

\* lam is strictly inside the backtrack limit lam0 - direct*backtrackStop
C4_Inside(v) ==
    /\ ~v.nan
    /\ \/ config.backtrackStop.inf
       \/ Sgn(lam1 - lam0) * v.lam
             > Sgn(lam1 - lam0) * lam0 - config.backtrackStop.val

\* C4: a step is taken only from a last row that is before lam1 and inside
\* the backtrack limit, and only while step < MaxSteps; so a returned path
\* has between 1 and MaxSteps rows and all its rows but the last are before
\* lam1 and inside the backtrack limit.
C4_PathWithinLimits ==
    /\ pc \in {"predict", "solved"} =>
          /\ step < config.MaxSteps
          /\ C4_Before(XlamP_full[step])
          /\ C4_Inside(XlamP_full[step])
    /\ pc = "done" =>
          /\ Len(XlamP_full) >= 1
          /\ Len(XlamP_full) <= config.MaxSteps
          /\ \A i \in Rows \ {Len(XlamP_full)} :
                C4_Before(XlamP_full[i]) /\ C4_Inside(XlamP_full[i])

\* a returned path whose last row was reached before MaxSteps by backtracking
C4_Witness ==
    /\ pc = "done"
    /\ Len(XlamP_full) = 2
    /\ config.MaxSteps = 3
    /\ ~config.backtrackStop.inf
    /\ ~C4_Inside(XlamP_full[2])
    /\ C4_Before(XlamP_full[2])

\* C5: with a callback and a converged initial point the calls are: the
\* initial point with a NaN direction; one call per recorded step, in path
\* order, with that step's point and the direction predicted for it; one
\* last call with a NaN point.  So a returned path of n rows comes with n+1
\* calls, however the run ended, and a run without callback makes none.
C5_CallbackSequence ==
    /\ [](~config.callback => calls = <<>>)
    /\ []((config.callback /\ pc \in {"loop", "predict", "solved", "final"}) =>
             /\ Len(calls) = Len(XlamP_full)
             /\ calls[1].dirP.nan
             /\ \A i \in Rows : calls[i].XlamP = XlamP_full[i])
    /\ [][(config.callback /\ pc = "solved" /\ pc' = "loop") =>
             calls' = Append(calls, [XlamP |-> XlamP_full'[step + 1],
                                     dirP |-> TimesCtoP(dirC, CtoP)])]_vars
    /\ []((config.callback /\ pc = "done") =>
             /\ Len(calls) = Len(XlamP_full) + 1
             /\ calls[Len(calls)].XlamP.nan
             /\ \A i \in Rows : calls[i].XlamP = XlamP_full[i] /\ ~calls[i].XlamP.nan)

\* a run that ended on a failed step after one recorded step
C5_Witness ==
    /\ pc = "done"
    /\ config.callback
    /\ ~silent
    /\ ~sol.success
    /\ Len(XlamP_full) = 2
    /\ Len(calls) = 3

----------------------------------------------------------------------------
(* Claims about the step size *)

\* a step is stored after a corrector solve that converged
AcceptStep == pc = "solved" /\ sol.success /\ pc' = "loop"

\* min(max(ds_used * min(TargetNfev / nfev, MaxIncrease), dsmin), dsmax)
C6_Formula(used, nfev) ==
    LET ratio  == Rat(config.TargetNfev, nfev)
        factor == IF RLe(ratio, config.MaxIncrease) THEN ratio
                  ELSE config.MaxIncrease
        grown  == RMul(used, factor)
        low    == IF RLe(config.dsmin, grown) THEN grown ELSE config.dsmin
    IN  IF RLe(low, config.dsmax) THEN low ELSE config.dsmax

\* C6 as stated: after every accepted step the next ds is the formula, lies
\* in [dsmin, dsmax] and is at most MaxIncrease times the ds that converged.
C6_NextStepSize ==
    [][AcceptStep =>
          /\ ds' = C6_Formula(ds, sol.nfev)
          /\ RLe(config.dsmin, ds') /\ RLe(ds', config.dsmax)
          /\ RLe(ds', RMul(config.MaxIncrease, ds))]_vars

\* C6, amended: after every accepted step the next ds is the formula; it is
\* at most max(MaxIncrease * ds_used, dsmin), and lies in [dsmin, dsmax]
\* when dsmin <= dsmax.
C6_NextStepSizeAmended ==
    [][AcceptStep =>
          /\ ds' = C6_Formula(ds, sol.nfev)
          /\ RLe(config.dsmin, config.dsmax) =>
                RLe(config.dsmin, ds') /\ RLe(ds', config.dsmax)
          /\ \/ RLe(ds', RMul(config.MaxIncrease, ds))
             \/ ds' = config.dsmin]_vars

\* the first step converged at a ds below dsmin and the next ds is dsmin,
\* more than MaxIncrease times the ds that converged
C6_Witness ==
    /\ pc = "loop"
    /\ step = 2
    /\ rowOk[2]
    /\ ds = config.dsmin
    /\ RLt(RMul(config.MaxIncrease, dsEntry), ds)

NoLimitKeys == "dsmax" \notin userKeys /\ "dsmin" \notin userKeys

\* the state from which the first corrector attempt of a run is made
FirstAttempt == pc = "predict" /\ step = 1 /\ fracLam_ind = 0

\* C7 as stated: without dsmax and dsmin in config, dsmax = 5*ds0 and
\* dsmin = ds0/5 for the ds0 the run starts with (config['ds0']), and the
\* first corrector attempt uses a ds in [dsmin, dsmax].
C7_DefaultLimits ==
    NoLimitKeys =>
        /\ config.dsmax = RMul(Rat(5, 1), config.ds0)
        /\ config.dsmin = RMul(config.ds0, Rat(1, 5))
        /\ FirstAttempt =>
              /\ ds = config.ds0
              /\ RLe(config.dsmin, ds) /\ RLe(ds, config.dsmax)

\* C7, amended: without dsmax and dsmin in config, dsmax = 5*ds0 and
\* dsmin = ds0/5 for the constructor argument ds0 (default 0.01); the run
\* starts with config['ds0'], which is that argument unless config has a
\* 'ds0' key, and only then is the first ds known to be in [dsmin, dsmax].
C7_DefaultLimitsAmended ==
    /\ NoLimitKeys =>
          /\ config.dsmax = RMul(Rat(5, 1), ctor_ds0)
          /\ config.dsmin = RMul(ctor_ds0, Rat(1, 5))
    /\ FirstAttempt => ds = config.ds0
    /\ "ds0" \notin userKeys => config.ds0 = ctor_ds0
    /\ (NoLimitKeys /\ "ds0" \notin userKeys /\ FirstAttempt) =>
          RLe(config.dsmin, ds) /\ RLe(ds, config.dsmax)

\* a first corrector attempt with default limits and a ds below dsmin
C7_Witness ==
    /\ FirstAttempt
    /\ NoLimitKeys
    /\ "ds0" \in userKeys
    /\ RLt(ds, config.dsmin)

----------------------------------------------------------------------------
(* Claims about the conditioning vector *)

\* max(|entries of the last recorded point|, CtoP0), entry by entry
C8_FromRow(row) ==
    <<IF Abs(row.x) >= CtoP0[1] THEN Abs(row.x) ELSE CtoP0[1],
      IF Abs(row.lam) >= CtoP0[2] THEN Abs(row.lam) ELSE CtoP0[2]>>

\* a predictor or corrector call of the step loop is about to be made
LoopSolverCall ==
    \/ pc = "predict"
    \/ pc = "solved" /\ ~sol.success /\ RLt(config.dsmin, ds)

\* the predictor call after the loop is about to be made
FinalPredictCall == pc = "final" /\ config.callback /\ sol.success

\* without DynamicCtoP nothing changes CtoP once the run has set it up
C8_Frame == [][(~config.DynamicCtoP /\ pc # "init") => CtoP' = CtoP]_vars

\* C8 as stated: with DynamicCtoP, at every predictor and corrector call of
\* a run CtoP = max(|last recorded point|, CtoP at the start of the run);
\* without DynamicCtoP, CtoP is not modified during the run.
C8_CtoPAtEveryCall ==
    /\ []((config.DynamicCtoP /\ (LoopSolverCall \/ FinalPredictCall)) =>
             CtoP = C8_FromRow(XlamP_full[Len(XlamP_full)]))
    /\ C8_Frame

\* C8, amended: with DynamicCtoP, at every predictor and corrector call made
\* inside the step loop CtoP = max(|last recorded point|, CtoP at the start
\* of the run); the predictor call made after the loop for the final
\* callback uses the CtoP of the last step taken, computed from the row
\* before the last one (the start-of-run value if no step was taken);
\* CtoP is never below its start-of-run value; without DynamicCtoP, CtoP is
\* not modified during the run.
C8_CtoPAtLoopCalls ==
    /\ []((config.DynamicCtoP /\ LoopSolverCall) =>
             CtoP = C8_FromRow(XlamP_full[Len(XlamP_full)]))
    /\ []((config.DynamicCtoP /\ FinalPredictCall /\ step = 1) => CtoP = CtoP0)
    /\ []((config.DynamicCtoP /\ FinalPredictCall /\ step > 1) =>
             CtoP = C8_FromRow(XlamP_full[step - 1]))
    /\ []((config.DynamicCtoP /\ pc \notin {"init", "abort_initial"}) =>
             CtoP[1] >= CtoP0[1] /\ CtoP[2] >= CtoP0[2])
    /\ C8_Frame

\* the final predictor call is about to run with a CtoP that is not the one
\* of the last recorded point
C8_Witness ==
    /\ config.DynamicCtoP
    /\ FinalPredictCall
    /\ step > 1
    /\ CtoP # C8_FromRow(XlamP_full[Len(XlamP_full)])

\* the step loop starts a step
BeginStep == pc = "loop" /\ pc' = "predict"

\* C9 as stated: with DynamicCtoP every entry of CtoP is non-decreasing over
\* the steps of a run.
C9_CtoPMonotone ==
    [][(config.DynamicCtoP /\ pc # "init") =>
          CtoP'[1] >= CtoP[1] /\ CtoP'[2] >= CtoP[2]]_vars

\* C9, amended: with DynamicCtoP every entry of CtoP is at every step at
\* least its start-of-run value, and the value used at step n+1 is at least
\* the one used at step n whenever the magnitude of that entry of the
\* recorded point did not decrease; otherwise it may decrease.
C9_CtoPFloored ==
    [][(config.DynamicCtoP /\ BeginStep) =>
          /\ CtoP'[1] >= CtoP0[1] /\ CtoP'[2] >= CtoP0[2]
          /\ step = 1 => CtoP'[1] >= CtoP[1] /\ CtoP'[2] >= CtoP[2]
          /\ (step > 1 /\ Abs(XlamP_full[step].x) >= Abs(XlamP_full[step - 1].x))
                => CtoP'[1] >= CtoP[1]
          /\ (step > 1 /\ Abs(XlamP_full[step].lam) >= Abs(XlamP_full[step - 1].lam))
                => CtoP'[2] >= CtoP[2]]_vars

\* a step whose CtoP has an entry below the value the step before used
C9_Witness ==
    /\ config.DynamicCtoP
    /\ pc = "predict"
    /\ step > 1
    /\ CtoP[1] < C8_FromRow(XlamP_full[step - 1])[1]

----------------------------------------------------------------------------
(* Claims about the direction of travel *)

\* C10 as stated: when every solve converges and DynamicCtoP is off, the lam
\* of each row is at or beyond the lam of the row before it in the
\* direction sign(lam1 - lam0).
C10_LamMonotone ==
    (allConverged /\ ~config.DynamicCtoP) =>
        \A i \in Rows \ {1} :
            Sgn(lam1 - lam0) * XlamP_full[i].lam
                >= Sgn(lam1 - lam0) * XlamP_full[i - 1].lam

\* the weighted inner product c*dX.dirX + b*dlam.dirlam of the prediction
\* with the last recorded step, times b[2] * XlamP0.x^2 * CtoP[2] > 0
C10_Inner ==
    (config.FracLam[2] - config.FracLam[1]) * CtoP[1] * CtoP[2]
        * dirC.x * (XlamP0.x - XlamPprev.x)
    + config.FracLam[1] * XlamP0.x * XlamP0.x
        * dirC.lam * (XlamP0.lam - XlamPprev.lam)

\* C10, amended: every prediction is signed so that its weighted inner
\* product with the last recorded step is not negative, and the prediction
\* of the first step points towards lam1 in lam (FracLam > 0); the recorded
\* lam values follow the solution curve and turn back where it turns back.
C10_PredictionKeepsDirection ==
    (pc = "solved" /\ ~dirC.nan) =>
        /\ C10_Inner >= 0
        /\ step = 1 => Sgn(dirC.lam) = Sgn(lam1 - lam0)

\* a returned path of converged points whose lam turned back
C10_Witness ==
    /\ pc = "done"
    /\ allConverged
    /\ ~config.DynamicCtoP
    /\ \E i \in Rows \ {1} :
          Sgn(lam1 - lam0) * XlamP_full[i].lam
              < Sgn(lam1 - lam0) * XlamP_full[i - 1].lam

----------------------------------------------------------------------------
(***************************************************************************)
(* NonlinearSolverOMP.nsolve of tmdsimpy/jax/solvers.py for one unknown.   *)
(* X, R, dRdX and deltaX are records [nan, v] with an integer v; the       *)
(* problems and starting points are chosen so that every Newton and every  *)
(* secant step is an integer.  A norm, an energy or a ratio of two of them *)
(* is a record [k, n, d]: the fraction n/d (d > 0) when k = "fin", else    *)
(* inf or nan.  A tolerance is <<>> for None, else a rational <<n, d>>.    *)
(* verbose only prints and is left out.                                    *)
(***************************************************************************)

\* largest max_steps a solver is configured with
MaxIter == 3

None == <<>>

Val(v) == [nan |-> FALSE, v |-> v]

NaNVal == [nan |-> TRUE, v |-> 0]

NFin(n) == [k |-> "fin", n |-> n, d |-> 1]

NInf == [k |-> "inf", n |-> 0, d |-> 1]

NNaN == [k |-> "nan", n |-> 0, d |-> 1]

\* np.abs of a norm, an energy or a ratio
NAbs(a) == [a EXCEPT !.n = Abs(a.n)]

\* a / b in floating point, for integer or infinite a and b
NDiv(a, b) ==
    IF a.k = "nan" \/ b.k = "nan" THEN NNaN
    ELSE IF a.k = "inf" THEN (IF b.k = "inf" THEN NNaN ELSE NInf)
    ELSE IF b.k = "inf" THEN NFin(0)
    ELSE IF b.n = 0 THEN (IF a.n = 0 THEN NNaN ELSE NInf)
    ELSE [k |-> "fin", n |-> a.n * Sgn(b.n), d |-> Abs(b.n)]

\* np.abs(q) < tol; any comparison with nan is False
AbsLess(q, tol) == q.k = "fin" /\ Abs(q.n) * tol[2] < tol[1] * q.d

\* the residual functions solved: fun(X) -> (R, dRdX), or an exception
ProblemKinds == {"affine", "square", "nanR", "nanJ", "raise"}

fun_R_dRdX(p, X) ==
    [raises |-> p.kind = "raise" /\ X < 0,
     R |-> IF p.kind = "square" THEN Val(X * X)
           ELSE IF p.kind = "nanR" /\ X < 0 THEN NaNVal
           ELSE Val(X - p.target),
     dRdX |-> IF p.kind = "square" THEN Val(2 * X)
              ELSE IF p.kind = "nanJ" /\ X < 0 THEN NaNVal
              ELSE Val(1)]

\* (variant) dRdX factored without the minus sign
NewtonStep_plus(R, jac) ==
    IF jac = 0 THEN NaNVal ELSE Val(R \div jac)

\* lu_solve(lu_factor(-dRdX), R): 0/0 is nan
NewtonStep(R, jac) ==
    IF jac = 0 THEN NaNVal ELSE Val((0 - R) \div jac)

\* lines 325-339 for one unknown: v = 1/(R - Rminus1),
\* alpha = sqrt(-(R - Rminus1)/Rminus1), and the three products reduce to
\* R*Rminus1 / ((R - Rminus1)*dRdX); nan when alpha is the root of a
\* negative number or a division is 0/0 or 0*inf
BfgsStep(R, Rminus1, dXminus1, jac) ==
    IF dXminus1.nan \/ dXminus1.v = 0 \/ Rminus1 = 0 \/ R = Rminus1
        \/ (Rminus1 - R) * Rminus1 < 0
    THEN NaNVal
    ELSE Val((R * Rminus1) \div ((R - Rminus1) * jac))

\* the quantity each criterion is documented to compare (class docstring)
error_dict_own(key, r_curr, e_curr, u_curr, r_rel, e_rel, u_rel) ==
    CASE key = "xtol" -> u_curr
      [] key = "rtol" -> r_curr
      [] key = "etol" -> e_curr
      [] key = "xtol_rel" -> u_rel
      [] key = "rtol_rel" -> r_rel
      [] key = "etol_rel" -> e_rel

\* lines 478-485
error_dict(key, r_curr, e_curr, u_curr, r_rel, e_rel, u_rel) ==
    CASE key = "xtol" -> u_curr
      [] key = "rtol" -> r_curr
      [] key = "etol" -> e_curr
      [] key = "xtol_rel" -> e_rel
      [] key = "rtol_rel" -> r_rel
      [] key = "etol_rel" -> u_rel

RECURSIVE CheckFrom(_, _, _, _, _)
\* lines 487-488: converged = converged or (np.abs(error_dict[key]) <
\* tol_dict[key]); the comparison with None raises TypeError and is not
\* evaluated once converged is True
CheckFrom(check_list, tol_dict, q, j, converged) ==
    IF j > Len(check_list) THEN [raised |-> FALSE, converged |-> converged]
    ELSE IF converged THEN CheckFrom(check_list, tol_dict, q, j + 1, TRUE)
    ELSE IF tol_dict[check_list[j]] = None
         THEN [raised |-> TRUE, converged |-> FALSE]
    ELSE CheckFrom(check_list, tol_dict, q, j + 1,
                   AbsLess(error_dict(check_list[j], q.r_curr, q.e_curr,
                                      q.u_curr, q.r_rel, q.e_rel, q.u_rel),
                           tol_dict[check_list[j]]))

\* _check_convg; q holds the six quantities passed in
check_convg(check_list, tol_dict, q) == CheckFrom(check_list, tol_dict, q, 1, FALSE)

\* lines 350-364: the norms of this iteration and the reference values
Quantities(f, R, deltaX) ==
    LET u_curr == NFin(Abs(deltaX))
        e_raw  == IF f.deltaXminus1.nan THEN NNaN ELSE NFin(R * f.deltaXminus1.v)
        e_curr == IF f.i = 0 THEN NInf ELSE e_raw
        r_curr == NFin(Abs(R))
        r0 == IF f.i = 0 THEN r_curr ELSE f.r0
        u0 == IF f.i = 0 THEN u_curr ELSE f.u0
        e0 == IF f.i = 0 THEN NInf ELSE IF f.i = 1 THEN NAbs(e_curr) ELSE f.e0
    IN  [r_curr |-> r_curr, e_curr |-> e_curr, u_curr |-> u_curr,
         r0 |-> r0, e0 |-> e0, u0 |-> u0,
         r_rel |-> NDiv(r_curr, r0), e_rel |-> NDiv(e_curr, e0),
         u_rel |-> NDiv(u_curr, u0)]

\* the default xtol 1e-6*X0.shape[0] for one unknown
XtolDefault == <<1, 1000000>>

\* lines 231-234
ResolveXtol(xtol, cfg) ==
    IF xtol # None THEN xtol
    ELSE IF cfg.xtol # None THEN cfg.xtol
    ELSE XtolDefault

\* (variant) the counter reset one iteration late
NextBfgsInd_late(bfgs_ind, reform_freq) == (bfgs_ind + 1) % (reform_freq + 1)

\* line 406: bfgs_ind = (bfgs_ind + 1) % reform_freq
NextBfgsInd(bfgs_ind, reform_freq) == (bfgs_ind + 1) % reform_freq

\* (variant) the accepting tolerances checked after a NaN stop as well
CheckAccepting_always(no_nan_vals, success) == ~success

\* line 420: if no_nan_vals and not sol['success']
CheckAccepting(no_nan_vals, success) == no_nan_vals /\ ~success

\* an entry of the record kept of the iterations of a call
\* lines 288 and 311: curr_iter of the iteration the frame f is about to run
curr_iter(f) == IF f.bfgs_ind = 0 THEN "NR" ELSE "BFGS"

HistNaN(f) ==
    [nan |-> TRUE, Xbefore |-> f.X, converged |-> FALSE, q |-> f.q,
     curr_iter |-> curr_iter(f)]

HistStep(f, q, c) ==
    [nan |-> FALSE, Xbefore |-> f.X, converged |-> c, q |-> q,
     curr_iter |-> curr_iter(f)]

\* where the loop goes after iteration f.i did not break
AfterIteration(f) == IF f.i + 1 < f.max_iter THEN "loop" ELSE "cleanup"

\* lines 341-414: from the NaN check of deltaX to the end of the loop body
UpdateAndCheck(f, R, jac, deltaX, nfev, njev) ==
    LET g == [f EXCEPT !.R = R, !.dRdX = jac, !.deltaX = deltaX,
                       !.sol.nfev = nfev, !.sol.njev = njev]
    IN  IF deltaX.nan
        THEN [g EXCEPT !.no_nan_vals = FALSE, !.pc = "cleanup",
                       !.hist = Append(f.hist, HistNaN(f))]
        ELSE LET q == Quantities(f, R.v, deltaX.v)
                 c == check_convg(solver.config.stopping_tol, solver.config, q)
                 h == [g EXCEPT !.X = f.X + deltaX.v, !.q = q, !.bound = TRUE,
                                !.r0 = q.r0, !.e0 = q.e0, !.u0 = q.u0]
             IN  IF c.raised
                 THEN [h EXCEPT !.pc = "raised"]
                 ELSE IF c.converged
                 THEN [h EXCEPT !.sol.success = TRUE, !.pc = "cleanup",
                                !.hist = Append(f.hist, HistStep(f, q, TRUE))]
                 ELSE [h EXCEPT !.bfgs_ind = NextBfgsInd(f.bfgs_ind,
                                                 solver.config.reform_freq),
                                !.Rminus1 = R.v,
                                !.deltaXminus1 = deltaX,
                                !.i = f.i + 1,
                                !.pc = AfterIteration(f),
                                !.hist = Append(f.hist, HistStep(f, q, FALSE))]

\* the tolerances a solver is configured with
TolOptions == {"default", "xtol", "accept", "rel", "ordered"}

TolConfig(o) ==
    [xtol |-> IF o = "xtol" THEN <<10, 1>> ELSE None,
     rtol |-> IF o = "accept" THEN <<100, 1>>
              ELSE IF o = "ordered" THEN <<1, 1>> ELSE None,
     etol |-> None,
     xtol_rel |-> IF o = "rel" THEN <<3, 5>> ELSE None,
     rtol_rel |-> None,
     etol_rel |-> IF o = "rel" THEN <<3, 5>> ELSE None,
     stopping_tol |-> IF o = "rel" THEN <<"xtol_rel">>
                      ELSE IF o = "ordered" THEN <<"rtol", "etol">>
                      ELSE <<"xtol">>,
     accepting_tol |-> IF o = "accept" THEN <<"rtol">>
                       ELSE IF o = "rel" THEN <<"etol_rel">> ELSE <<>>]

\* NonlinearSolverOMP.__init__: the defaults overridden by the caller's keys
NonlinearSolverOMP_init(max_steps, reform_freq, o) ==
    LET t == TolConfig(o)
    IN  [max_steps |-> max_steps, reform_freq |-> reform_freq,
         xtol |-> t.xtol, rtol |-> t.rtol, etol |-> t.etol,
         xtol_rel |-> t.xtol_rel, rtol_rel |-> t.rtol_rel,
         etol_rel |-> t.etol_rel,
         stopping_tol |-> t.stopping_tol, accepting_tol |-> t.accepting_tol]

\* the problems and the starting points X0 of the calls
Problems ==
    {[kind |-> "square", target |-> 0]}
    \cup [kind : ProblemKinds \ {"square"}, target : {0 - 8, 0, 16}]

StartsOf(p) == IF p.kind = "square" THEN {0, 144} ELSE {0 - 8, 0, 16}

\* the xtol argument of nsolve
XtolArgs == {None, <<1, 2>>, <<20, 1>>}

NoQuantities ==
    [r_curr |-> NNaN, e_curr |-> NNaN, u_curr |-> NNaN,
     r0 |-> NNaN, e0 |-> NNaN, u0 |-> NNaN,
     r_rel |-> NNaN, e_rel |-> NNaN, u_rel |-> NNaN]

SolverInit ==
    /\ ContinuationOff
    /\ ElementOff
    /\ HutilsOff
    /\ \E ms \in 0..MaxIter, rf \in {1, 2}, o \in TolOptions :
          solver = [pc |-> "on", config |-> NonlinearSolverOMP_init(ms, rf, o)]
    /\ \E p \in Problems, xt \in XtolArgs :
       \E x0 \in StartsOf(p) :
          ns = [pc |-> "call", fun |-> p, X0 |-> x0, xtol |-> xt,
                xtol_before |-> solver.config.xtol,
                xtol_setting |-> None, max_iter |-> 0,
                sol |-> [success |-> FALSE, nfev |-> 0, njev |-> 0],
                X |-> x0, R |-> NaNVal, dRdX |-> NaNVal, deltaX |-> NaNVal,
                deltaXminus1 |-> NaNVal, Rminus1 |-> 0,
                i |-> 0, bfgs_ind |-> 0, no_nan_vals |-> TRUE,
                bound |-> FALSE, q |-> NoQuantities,
                r0 |-> NNaN, e0 |-> NNaN, u0 |-> NNaN,
                accepting_checked |-> FALSE, hist |-> <<>>]

\* lines 230-285: xtol is resolved and written into config, locals are set
NsolveBegin ==
    /\ ns.pc = "call"
    /\ solver' = [solver EXCEPT !.config.xtol = ResolveXtol(ns.xtol, solver.config)]
    /\ ns' = [ns EXCEPT !.xtol_setting = solver.config.xtol,
                        !.max_iter = solver.config.max_steps,
                        !.pc = IF solver.config.max_steps > 0 THEN "loop"
                               ELSE "cleanup"]
    /\ UNCHANGED <<contVars, elementVars, hutilsVars>>

\* lines 287-308, 341-414: an iteration that evaluates and factors dRdX
IterateNR ==
    /\ ns.pc = "loop"
    /\ ns.bfgs_ind = 0
    /\ LET r == fun_R_dRdX(ns.fun, ns.X)
           nfev == ns.sol.nfev + 1
           njev == ns.sol.njev + 1
           counted == [ns EXCEPT !.sol.nfev = nfev, !.sol.njev = njev,
                                 !.R = r.R, !.dRdX = r.dRdX]
       IN  ns' = IF r.raises THEN [ns EXCEPT !.pc = "raised"]
                 ELSE IF r.R.nan \/ r.dRdX.nan
                 THEN [counted EXCEPT !.no_nan_vals = FALSE, !.pc = "cleanup",
                                      !.hist = Append(ns.hist, HistNaN(ns))]
                 ELSE UpdateAndCheck(ns, r.R, r.dRdX,
                                     NewtonStep(r.R.v, r.dRdX.v), nfev, njev)
    /\ UNCHANGED <<solver, contVars, elementVars, hutilsVars>>

\* (variant) a BFGS iteration that keeps the dRdX of its own iterate
IterateBFGS_reform ==
    /\ ns.pc = "loop"
    /\ ns.bfgs_ind # 0
    /\ LET r == fun_R_dRdX(ns.fun, ns.X)
           nfev == ns.sol.nfev + 1
       IN  ns' = IF r.raises THEN [ns EXCEPT !.pc = "raised"]
                 ELSE IF r.R.nan
                 THEN [ns EXCEPT !.sol.nfev = nfev, !.R = r.R,
                                 !.no_nan_vals = FALSE, !.pc = "cleanup",
                                 !.hist = Append(ns.hist, HistNaN(ns))]
                 ELSE UpdateAndCheck(ns, r.R, r.dRdX,
                                     BfgsStep(r.R.v, ns.Rminus1, ns.deltaXminus1,
                                              ns.dRdX.v),
                                     nfev, ns.sol.njev)
    /\ UNCHANGED <<solver, contVars, elementVars, hutilsVars>>

\* lines 310-339, 341-414: an iteration that reuses the factored dRdX
IterateBFGS ==
    /\ ns.pc = "loop"
    /\ ns.bfgs_ind # 0
    /\ LET r == fun_R_dRdX(ns.fun, ns.X)
           nfev == ns.sol.nfev + 1
       IN  ns' = IF r.raises THEN [ns EXCEPT !.pc = "raised"]
                 ELSE IF r.R.nan
                 THEN [ns EXCEPT !.sol.nfev = nfev, !.R = r.R,
                                 !.no_nan_vals = FALSE, !.pc = "cleanup",
                                 !.hist = Append(ns.hist, HistNaN(ns))]
                 ELSE UpdateAndCheck(ns, r.R, ns.dRdX,
                                     BfgsStep(r.R.v, ns.Rminus1, ns.deltaXminus1,
                                              ns.dRdX.v),
                                     nfev, ns.sol.njev)
    /\ UNCHANGED <<solver, contVars, elementVars, hutilsVars>>

\* lines 420-441, when the accepting tolerances are checked: r_curr and the
\* others are unbound if no iteration got to them, a tolerance may be None
NsolveAccept ==
    /\ ns.pc = "cleanup"
    /\ CheckAccepting(ns.no_nan_vals, ns.sol.success)
    /\ LET c == check_convg(solver.config.accepting_tol, solver.config, ns.q)
       IN  IF ~ns.bound \/ c.raised
           THEN /\ ns' = [ns EXCEPT !.pc = "raised"]
                /\ UNCHANGED solver
           ELSE /\ ns' = [ns EXCEPT !.sol.success = c.converged,
                                    !.accepting_checked = TRUE,
                                    !.pc = "returned"]
                /\ solver' = [solver EXCEPT !.config.xtol = ns.xtol_setting]
    /\ UNCHANGED <<contVars, elementVars, hutilsVars>>

\* lines 420, 436-441, when they are not: xtol is put back, nsolve returns
NsolveReturn ==
    /\ ns.pc = "cleanup"
    /\ ~CheckAccepting(ns.no_nan_vals, ns.sol.success)
    /\ ns' = [ns EXCEPT !.pc = "returned"]
    /\ solver' = [solver EXCEPT !.config.xtol = ns.xtol_setting]
    /\ UNCHANGED <<contVars, elementVars, hutilsVars>>

SolverNext ==
    \/ NsolveBegin
    \/ IterateNR
    \/ IterateBFGS
    \/ NsolveAccept
    \/ NsolveReturn

SolverSpec == SolverInit /\ [][SolverNext]_vars

----------------------------------------------------------------------------
(* Claims about NonlinearSolverOMP.nsolve *)

\* the tolerances of the call: config with the xtol the call resolved
CallTols ==
    [solver.config EXCEPT
        !.xtol = ResolveXtol(ns.xtol, [xtol |-> ns.xtol_before])]

\* some criterion of the list is satisfied by the quantities q, each
\* criterion taking the entry error_dict gives it
Satisfied(list, q) ==
    \E j \in 1..Len(list) :
        /\ CallTols[list[j]] # None
        /\ AbsLess(error_dict(list[j], q.r_curr, q.e_curr, q.u_curr,
                              q.r_rel, q.e_rel, q.u_rel),
                   CallTols[list[j]])

\* the same with each criterion taking its own quantity
SatisfiedOwn(list, q) ==
    \E j \in 1..Len(list) :
        /\ CallTols[list[j]] # None
        /\ AbsLess(error_dict_own(list[j], q.r_curr, q.e_curr, q.u_curr,
                                  q.r_rel, q.e_rel, q.u_rel),
                   CallTols[list[j]])

Iterations == 1..Len(ns.hist)

\* C11: nsolve returns success=True exactly when some iteration satisfied
\* stopping_tol, or all max_steps iterations ran without NaN and the last
\* one satisfies accepting_tol; an iteration that meets a NaN is the last
\* one, leaves X as it was, skips the accepting check and gives
\* success=False.
C11_SuccessRule ==
    ns.pc = "returned" =>
        /\ ns.sol.success <=>
              \/ \E k \in Iterations :
                    ~ns.hist[k].nan
                    /\ Satisfied(solver.config.stopping_tol, ns.hist[k].q)
              \/ /\ Len(ns.hist) = solver.config.max_steps
                 /\ \A k \in Iterations : ~ns.hist[k].nan
                 /\ Satisfied(solver.config.accepting_tol,
                              ns.hist[Len(ns.hist)].q)
        /\ \A k \in Iterations :
              ns.hist[k].nan =>
                  /\ k = Len(ns.hist)
                  /\ ns.X = ns.hist[k].Xbefore
                  /\ ~ns.accepting_checked
                  /\ ~ns.sol.success

\* a solve stopped by a NaN in its second iteration or later, whose
\* quantities of the iteration before satisfy accepting_tol
C11_Witness ==
    /\ ns.pc = "returned"
    /\ Len(ns.hist) >= 2
    /\ ns.hist[Len(ns.hist)].nan
    /\ Satisfied(solver.config.accepting_tol, ns.q)

\* C12: every check of nsolve is true iff some criterion of its list has
\* |its own quantity| < its tolerance: 'xtol' |dX|, 'xtol_rel' |dX|/|dX0|,
\* 'rtol' |R|, 'rtol_rel' |R|/|R0|, 'etol' the energy, 'etol_rel' e/e0.
C12_OwnQuantity ==
    ns.pc \in {"loop", "cleanup", "returned"} =>
        /\ \A k \in Iterations :
              ~ns.hist[k].nan =>
                  (ns.hist[k].converged
                      <=> SatisfiedOwn(solver.config.stopping_tol, ns.hist[k].q))
        /\ ns.accepting_checked =>
              (ns.sol.success
                  <=> SatisfiedOwn(solver.config.accepting_tol, ns.q))

AffineCall ==
    /\ ns.fun.kind = "affine"
    /\ solver.config.stopping_tol = <<"xtol">>
    /\ solver.config.reform_freq = 1

\* |X0 - target| < xtol for the xtol of the call
StartsWithinXtol == AbsLess(NFin(ns.X0 - ns.fun.target), CallTols.xtol)

\* C13 as stated: on R(X) = X - target with stopping_tol=['xtol'] and
\* reform_freq=1, nsolve reports convergence with nfev = 1 and X = target
\* from any X0 and for any xtol > 0.
C13_OneIteration ==
    (ns.pc = "returned" /\ AffineCall /\ solver.config.max_steps >= 2) =>
        /\ ns.sol.success
        /\ ns.sol.nfev = 1
        /\ ns.X = ns.fun.target

\* C13, amended: on R(X) = X - target with stopping_tol=['xtol'] and
\* reform_freq=1, X = target after the first iteration; convergence is
\* reported with nfev = 1 iff |X0 - target| < xtol, and otherwise with
\* nfev = 2 when max_steps >= 2 (the second iteration has dX = 0); with
\* max_steps = 1 the call returns after nfev = 1 either way, with success
\* only if |X0 - target| < xtol or accepting_tol is satisfied.
C13_AtMostTwoIterations ==
    (ns.pc = "returned" /\ AffineCall) =>
        /\ ns.X = ns.fun.target
        /\ StartsWithinXtol => ns.sol.success /\ ns.sol.nfev = 1
        /\ (~StartsWithinXtol /\ solver.config.max_steps >= 2) =>
              ns.sol.success /\ ns.sol.nfev = 2
        /\ solver.config.max_steps = 1 => ns.sol.nfev = 1
        /\ (~StartsWithinXtol /\ solver.config.max_steps = 1) =>
              (ns.sol.success
                  <=> Satisfied(solver.config.accepting_tol, ns.q))

\* an affine solve that converged to the target with two evaluations
C13_Witness ==
    /\ ns.pc = "returned"
    /\ AffineCall
    /\ ns.sol.success
    /\ ns.sol.nfev = 2
    /\ ns.X = ns.fun.target
    /\ ns.X0 # ns.fun.target

\* C14: once a call of nsolve with an explicit xtol has ended, by a return
\* or by an exception, config['xtol'] is what it was before the call.
C14_XtolRestored ==
    (ns.pc \in {"returned", "raised"} /\ ns.xtol # None) =>
        solver.config.xtol = ns.xtol_before

----------------------------------------------------------------------------
(***************************************************************************)
(* The force elements of tmdsimpy/jax/nlforces: one RoughContactFriction   *)
(* with one asperity and one JenkinsForce, Q and T the identity.  A local  *)
(* displacement is a record [x, n] (tangential, normal).  The harmonic     *)
(* transforms on both sides of the time loop of aft read and write no      *)
(* field of an element and are left out here: U is held by the time series *)
(* it stands for and Fnl by the force series.  The asperity laws of        *)
(* _asperity_functions are stood for by integer laws with the same         *)
(* arguments.                                                              *)
(***************************************************************************)

\* largest number of calls made on the elements in one behaviour
MaxCalls == 3

Disp(x, n) == [x |-> x, n |-> n]

Clip(v, lim) == IF v > lim THEN lim ELSE IF v < 0 - lim THEN 0 - lim ELSE v

\* asp_funs._normal_asperity_general: normal force of an asperity pressed
\* by un, given the largest displacement deltam and force Fm_prev so far
normal_asperity_general(un, deltam, Fm_prev) ==
    IF un <= 0 THEN 0
    ELSE IF un >= deltam THEN un
    ELSE IMax(Fm_prev - 2 * (deltam - un), 0)

\* asp_funs._normal_asperity_unloading: the same below the largest
\* displacement of the cycle
normal_asperity_unloading(un, deltam, Fm) ==
    IF un <= 0 THEN 0 ELSE IMax(Fm - 2 * (deltam - un), 0)

\* asp_funs._tangential_asperity: a slider sticking from (uxy0, fxy0) and
\* slipping at mu*fn
tangential_asperity(uxy, uxy0, fxy0, fn, mu) ==
    Clip(fxy0 + (uxy - uxy0), mu * fn)

\* _static_force (rough_contact.py 508-530): forces and the new history
static_force(uxyn, e) ==
    LET deltam == e.unmax - e.meso_gap - e.gaps
        un == uxyn.n - e.meso_gap - e.gaps
        fn_curr == normal_asperity_general(un, deltam, e.Fm_prev)
        fxy_curr == tangential_asperity(uxyn.x, e.uxyn0.x, e.fxy0, fn_curr, e.mu)
    IN  [fxyn |-> Disp(e.gap_weights * fxy_curr, fn_curr * e.gap_weights),
         Fm_curr |-> IMax(fn_curr, e.Fm_prev),
         fxy_curr |-> fxy_curr]

\* RoughContactFriction.init_history
init_history(e) ==
    [e EXCEPT !.unmax = 0, !.Fm_prev = 0, !.fxy0 = 0, !.uxyn0 = Disp(0, 0)]

\* RoughContactFriction.update_history
update_history(e, uxyn, Fm_curr, fxy_curr) ==
    [e EXCEPT !.unmax = IMax(uxyn.n, e.unmax), !.Fm_prev = Fm_curr,
              !.fxy0 = fxy_curr, !.uxyn0 = uxyn]

\* force with a history update at every call
force_always(X, update_hist, e) ==
    LET r == static_force(X, e)
    IN  [F |-> r.fxyn, self |-> update_history(e, X, r.Fm_curr, r.fxy_curr)]

\* RoughContactFriction.force: the force and the element after the call
force(X, update_hist, e) ==
    LET r == static_force(X, e)
    IN  [F |-> r.fxyn,
         self |-> IF update_hist
                  THEN update_history(e, X, r.Fm_curr, r.fxy_curr)
                  ELSE e]

RECURSIVE SeqMax(_)
SeqMax(q) ==
    IF Len(q) = 1 THEN q[1] ELSE IMax(q[1], SeqMax(Tail(q)))

RECURSIVE local_loop(_, _, _, _)
\* jax.lax.fori_loop(0, Nt, loop_fun, history) from index ind on, with
\* _local_loop_body: history = [fxyn_t, uxyn0, fxy0, deltam, Fm]
local_loop(ind, history, unlt, e) ==
    IF ind > Len(unlt) THEN history
    ELSE LET un == unlt[ind].n - e.meso_gap - e.gaps
             fn_curr == normal_asperity_unloading(un, history.deltam, history.Fm)
             fxy_curr == tangential_asperity(unlt[ind].x, history.uxyn0.x,
                                             history.fxy0, fn_curr, e.mu)
         IN  local_loop(ind + 1,
                 [history EXCEPT
                     !.fxyn_t[ind] = Disp(e.gap_weights * fxy_curr,
                                          fn_curr * e.gap_weights),
                     !.uxyn0 = unlt[ind],
                     !.fxy0 = fxy_curr],
                 unlt, e)

RECURSIVE Repeat(_, _, _, _)
\* for i in range(repeats): history = fori_loop(...)
Repeat(repeats, history, unlt, e) ==
    IF repeats = 0 THEN history
    ELSE Repeat(repeats - 1, local_loop(1, history, unlt, e), unlt, e)

\* _local_force_history with repeats = 2
local_force_history(unlt, unlth0, e) ==
    LET unmax == SeqMax([i \in 1..Len(unlt) |-> unlt[i].n])
        deltam0 == 0 - e.meso_gap - e.gaps
        unmax_asp == unmax - e.meso_gap - e.gaps
        fn == normal_asperity_general(unmax_asp, deltam0, 0)
        history == [fxyn_t |-> [i \in 1..Len(unlt) |-> Disp(0, 0)],
                    uxyn0 |-> unlth0, fxy0 |-> 0,
                    deltam |-> unmax_asp, Fm |-> fn]
    IN  Repeat(2, history, unlt, e).fxyn_t

\* the entry before ind, the last one for the first (python index -1)
Before(ind, Nt) == IF ind = 1 THEN Nt ELSE ind - 1

RECURSIVE jenkins_loop(_, _, _, _, _)
\* fori_loop(0, Nt, loop_fun, ft) with _local_jenkins_loop_body
jenkins_loop(ind, ft, unlt, kt, Fs) ==
    IF ind > Len(unlt) THEN ft
    ELSE LET prev == Before(ind, Len(unlt))
             fcurr == IMax(0 - Fs,
                           0 - IMax(0 - (kt * (unlt[ind] - unlt[prev]) + ft[prev]),
                                    0 - Fs))
         IN  jenkins_loop(ind + 1, [ft EXCEPT ![ind] = fcurr], unlt, kt, Fs)

RECURSIVE SeqSum(_)
SeqSum(q) == IF q = <<>> THEN 0 ELSE q[1] + SeqSum(Tail(q))

\* (variant) one pass over the cycle: range(1) in place of range(2)
local_aft_jenkins_once(unlt, j) ==
    LET Nt == Len(unlt)
        u0 == IF j.u0 = None THEN SeqSum(unlt) \div Nt ELSE j.u0[1]
        ft0 == [i \in 1..Nt |-> IF i = Nt THEN j.kt * (unlt[Nt] - u0) ELSE 0]
    IN  jenkins_loop(1, ft0, unlt, j.kt, j.Fs)

\* _local_aft_jenkins between the two transforms; with u0 None the slider
\* starts from the zeroth harmonic, the mean of the cycle
local_aft_jenkins(unlt, j) ==
    LET Nt == Len(unlt)
        u0 == IF j.u0 = None THEN SeqSum(unlt) \div Nt ELSE j.u0[1]
        ft0 == [i \in 1..Nt |-> IF i = Nt THEN j.kt * (unlt[Nt] - u0) ELSE 0]
        ft1 == jenkins_loop(1, ft0, unlt, j.kt, j.Fs)
    IN  jenkins_loop(1, ft1, unlt, j.kt, j.Fs)

\* the arguments of the calls
StaticArgs == {Disp(0, 1), Disp(2, 3), Disp(0 - 1, 2)}

CycleArgs ==
    {<<Disp(2, 3), Disp(0, 1), Disp(0 - 2, 3), Disp(0, 1)>>,
     <<Disp(1, 2), Disp(1, 2), Disp(1, 2), Disp(1, 2)>>}

\* the tangential part of a cycle, the displacement of the Jenkins slider
Tangential(unlt) == [i \in 1..Len(unlt) |-> unlt[i].x]

\* what has been returned since the element fields last changed
NoMemo == [force |-> <<>>, aft |-> <<>>, lfh |-> <<>>, jaft |-> <<>>]

Remember(memo, arg, out) ==
    [a \in DOMAIN memo \cup {arg} |-> IF a = arg THEN out ELSE memo[a]]

ElementInit ==
    /\ ContinuationOff
    /\ SolverOff
    /\ HutilsOff
    /\ \E mu \in {1, 2} :
          rough = init_history(
                    [pc |-> "on", mu |-> mu, real_mu |-> mu, prestress_mu |-> 0,
                     meso_gap |-> 0, gaps |-> 0, gap_weights |-> 1,
                     uxyn_initialize |-> Disp(0, 0),
                     unmax |-> 0, Fm_prev |-> 0, fxy0 |-> 0, uxyn0 |-> Disp(0, 0)])
    /\ \E u0 \in {None, <<0>>} :
          jenkins = [pc |-> "on", kt |-> 2, Fs |-> 3, prestress_Fs |-> 0,
                     real_Fs |-> 3, u0 |-> u0]
    /\ feCall = [pc |-> "on", n |-> 0, name |-> "none", trial |-> FALSE,
                 repeated |-> FALSE, same |-> TRUE, memo |-> NoMemo]

CanCall == feCall.pc = "on" /\ feCall.n < MaxCalls

\* the record of a call that changed no field of an element
TrialCall(name, key, arg, out) ==
    [feCall EXCEPT !.n = feCall.n + 1, !.name = name, !.trial = TRUE,
                   !.repeated = arg \in DOMAIN feCall.memo[key],
                   !.same = IF arg \in DOMAIN feCall.memo[key]
                            THEN feCall.memo[key][arg] = out ELSE TRUE,
                   !.memo[key] = Remember(feCall.memo[key], arg, out)]

\* the record of a call that sets fields of an element
SetterCall(name) ==
    [feCall EXCEPT !.n = feCall.n + 1, !.name = name, !.trial = FALSE,
                   !.repeated = FALSE, !.same = TRUE, !.memo = NoMemo]

\* RoughContactFriction.force(X, update_hist=False)
Force ==
    /\ CanCall
    /\ \E X \in StaticArgs :
          /\ rough' = force(X, FALSE, rough).self
          /\ feCall' = TrialCall("force", "force", X, force(X, FALSE, rough).F)
    /\ UNCHANGED <<jenkins, contVars, solverVars, hutilsVars>>

\* RoughContactFriction.force(X, update_hist=True)
ForceUpdate ==
    /\ CanCall
    /\ \E X \in StaticArgs : rough' = force(X, TRUE, rough).self
    /\ feCall' = SetterCall("force_update")
    /\ UNCHANGED <<jenkins, contVars, solverVars, hutilsVars>>

\* RoughContactFriction.aft(U, w, h)
Aft ==
    /\ CanCall
    /\ \E U \in CycleArgs :
          feCall' = TrialCall("aft", "aft", U,
                        local_force_history(U, rough.uxyn_initialize, rough))
    /\ UNCHANGED <<rough, jenkins, contVars, solverVars, hutilsVars>>

\* RoughContactFriction.local_force_history(unlt, unltdot, h, cst, unlth0)
LocalForceHistory ==
    /\ CanCall
    /\ \E unlt \in CycleArgs, unlth0 \in {Disp(0, 0), Disp(2, 3)} :
          feCall' = TrialCall("local_force_history", "lfh", <<unlt, unlth0>>,
                        local_force_history(unlt, unlth0, rough))
    /\ UNCHANGED <<rough, jenkins, contVars, solverVars, hutilsVars>>

\* JenkinsForce.aft(U, w, h)
JenkinsAft ==
    /\ CanCall
    /\ \E U \in CycleArgs :
          feCall' = TrialCall("jenkins_aft", "jaft", Tangential(U),
                        local_aft_jenkins(Tangential(U), jenkins))
    /\ UNCHANGED <<rough, jenkins, contVars, solverVars, hutilsVars>>

\* RoughContactFriction.update_history(uxyn, Fm_curr, fxy_curr)
UpdateHistory ==
    /\ CanCall
    /\ \E uxyn \in StaticArgs, Fm_curr \in {0, 3}, fxy_curr \in {0, 1} :
          rough' = update_history(rough, uxyn, Fm_curr, fxy_curr)
    /\ feCall' = SetterCall("update_history")
    /\ UNCHANGED <<jenkins, contVars, solverVars, hutilsVars>>

\* RoughContactFriction.init_history()
InitHistory ==
    /\ CanCall
    /\ rough' = init_history(rough)
    /\ feCall' = SetterCall("init_history")
    /\ UNCHANGED <<jenkins, contVars, solverVars, hutilsVars>>

\* RoughContactFriction.set_aft_initialize(X)
SetAftInitialize ==
    /\ CanCall
    /\ \E X \in StaticArgs : rough' = [rough EXCEPT !.uxyn_initialize = X]
    /\ feCall' = SetterCall("set_aft_initialize")
    /\ UNCHANGED <<jenkins, contVars, solverVars, hutilsVars>>

\* set_prestress_mu() of both elements
SetPrestressMu ==
    /\ CanCall
    /\ rough' = [rough EXCEPT !.mu = rough.prestress_mu]
    /\ jenkins' = [jenkins EXCEPT !.Fs = jenkins.prestress_Fs]
    /\ feCall' = SetterCall("set_prestress_mu")
    /\ UNCHANGED <<contVars, solverVars, hutilsVars>>

\* reset_real_mu() of both elements
ResetRealMu ==
    /\ CanCall
    /\ rough' = [rough EXCEPT !.mu = rough.real_mu]
    /\ jenkins' = [jenkins EXCEPT !.Fs = jenkins.real_Fs]
    /\ feCall' = SetterCall("reset_real_mu")
    /\ UNCHANGED <<contVars, solverVars, hutilsVars>>

ElementNext ==
    \/ Force
    \/ ForceUpdate
    \/ Aft
    \/ LocalForceHistory
    \/ JenkinsAft
    \/ UpdateHistory
    \/ InitHistory
    \/ SetAftInitialize
    \/ SetPrestressMu
    \/ ResetRealMu

ElementSpec == ElementInit /\ [][ElementNext]_vars

----------------------------------------------------------------------------
(***************************************************************************)
(* The hysteresis loop of _local_aft_jenkins on its own: a slider with     *)
(* stiffness kt, slip force Fs and reference displacement u0 is taken      *)
(* through the two passes of the function over one period of               *)
(* displacements and then through further passes of the same fori_loop.    *)
(***************************************************************************)

\* samples in a period, largest displacement, passes over the period
MaxSamples == 3

MaxDisp == 2

MaxPasses == 4

\* the periods of displacement samples
Periods ==
    UNION {[1..Nt -> (0 - MaxDisp)..MaxDisp] : Nt \in 1..MaxSamples}

\* kt > 0, Fs >= 0, and u0 given or taken from the zeroth harmonic
Sliders ==
    {[pc |-> "on", kt |-> kt, Fs |-> Fs, prestress_Fs |-> 0, real_Fs |-> Fs,
      u0 |-> u0] :
        kt \in {1, 2}, Fs \in {0, 1, 3}, u0 \in {None, <<0>>, <<0 - 4>>, <<3>>}}

JenkinsInit ==
    /\ ContinuationOff
    /\ SolverOff
    /\ HutilsOff
    /\ rough = [pc |-> "off"]
    /\ jenkins \in Sliders
    /\ \E unlt \in Periods :
          feCall = [pc |-> "cycle", unlt |-> unlt, passes |-> 0, ft |-> <<>>]

\* lines 333-341: the last entry set from the linear spring, two passes
JenkinsTwoPasses ==
    /\ feCall.pc = "cycle"
    /\ feCall.passes = 0
    /\ feCall' = [feCall EXCEPT !.passes = 2,
                                !.ft = local_aft_jenkins(feCall.unlt, jenkins)]
    /\ UNCHANGED <<rough, jenkins, contVars, solverVars, hutilsVars>>

\* line 341 once more: a further pass of the loop over the same samples
JenkinsRepeat ==
    /\ feCall.pc = "cycle"
    /\ feCall.passes >= 2
    /\ feCall.passes < MaxPasses
    /\ feCall' = [feCall EXCEPT !.passes = feCall.passes + 1,
                                !.ft = jenkins_loop(1, feCall.ft, feCall.unlt,
                                                    jenkins.kt, jenkins.Fs)]
    /\ UNCHANGED <<rough, jenkins, contVars, solverVars, hutilsVars>>

JenkinsNext == JenkinsTwoPasses \/ JenkinsRepeat

JenkinsSpec == JenkinsInit /\ [][JenkinsNext]_vars

----------------------------------------------------------------------------
(***************************************************************************)
(* Claim C15                                                               *)
(***************************************************************************)

HistoryOf(e) == <<e.unmax, e.Fm_prev, e.fxy0, e.uxyn0>>

HistoryOperations == {"update_history", "force_update", "init_history"}

C15_Step ==
    /\ feCall'.trial =>
          /\ rough' = rough
          /\ jenkins' = jenkins
          /\ feCall'.same
    /\ HistoryOf(rough') # HistoryOf(rough) => feCall'.name \in HistoryOperations

\* C15: aft, local_force_history and force(update_hist=False) of
\* RoughContactFriction and aft of JenkinsForce leave every field of the
\* elements as it was and return what the same call returned before; unmax,
\* Fm_prev, fxy0 and uxyn0 change only in update_history,
\* force(update_hist=True) and init_history
C15_TrialKeepsHistory == [][C15_Step]_vars

\* a force evaluation repeated on an element that carries a history
C15_Witness ==
    /\ feCall.name = "force"
    /\ feCall.trial
    /\ feCall.repeated
    /\ rough.Fm_prev > 0
    /\ rough.uxyn0 # Disp(0, 0)

----------------------------------------------------------------------------
(***************************************************************************)
(* tmdsimpy/harmonic_utils.py.  A list of harmonics h is a sequence of     *)
(* naturals, a matrix a sequence of rows, a row a sequence of integers, a  *)
(* complex number a record [re, im].  Positions are counted from 0 as in   *)
(* the code; At reads a sequence at such a position.  A real time series   *)
(* of Nt samples is held by twice its discrete Fourier transform, a        *)
(* sequence of Nt complex rows: np.real(np.fft.ifft(Xf)) has the transform *)
(* (Xf[m] + conj(Xf[-m])) / 2, and np.fft.fft gives it back.               *)
(***************************************************************************)

\* largest number of time samples asked for
MaxNt == 7

\* largest derivative order asked for
MaxOrder == 2

At(q, i) == q[i + 1]

Count(h, P(_)) == Cardinality({i \in 1..Len(h) : P(h[i])})

IsZero(k) == k = 0

NonZero(k) == k # 0

\* 2*(h != 0).sum() + (h == 0).sum()
ComponentCount(h) == 2 * Count(h, NonZero) + Count(h, IsZero)

\* len(np.unique(h)) == len(h)
Unique(h) == Cardinality({h[i] : i \in 1..Len(h)}) = Len(h)

\* Nhc without the assertion on repeated harmonics
Nhc_unchecked(h) == [raised |-> FALSE, value |-> ComponentCount(h)]

\* Nhc
Nhc(h) ==
    IF ~Unique(h) THEN [raised |-> TRUE, value |-> 0]
    ELSE [raised |-> FALSE, value |-> ComponentCount(h)]

\* (h == 0).sum() == 0 or h[0] == 0
ZerothFirst(h) == Count(h, IsZero) = 0 \/ At(h, 0) = 0

\* 1*(h[0] == 0)
Zi(h) == IF At(h, 0) = 0 THEN 1 ELSE 0

\* np.max(h)
MaxHarmonic(h) == SeqMax(h)

ZeroRow(nd) == [c \in 1..nd |-> 0]

\* the positions i of h (from zi on) written to row t of X0full by
\* X0full[2*h[zi:] - 1 + part, :] = X0[zi + part::2, :]
Writers(h, t, part) ==
    {i \in Zi(h)..(Len(h) - 1) : 2 * At(h, i) - 1 + part = t}

\* the largest of a set of positions: of the rows written to the same
\* place the last one stays
LastOf(S) == CHOOSE i \in S : \A j \in S : j <= i

\* X0full after lines 169-176
Place(h, X0) ==
    LET nd == Len(X0[1])
        Nh == MaxHarmonic(h)
        zi == Zi(h)
        Row(t) ==
            IF t = 0
            THEN IF zi = 1 THEN At(X0, 0) ELSE ZeroRow(nd)
            ELSE LET part == (t + 1) % 2
                     W == Writers(h, t, part)
                 IN  IF W = {} THEN ZeroRow(nd)
                     ELSE At(X0, zi + 2 * (LastOf(W) - zi) + part)
    IN  [t1 \in 1..(2 * Nh + 1) |-> Row(t1 - 1)]

\* D1 @ X0full: D1[cosrows, sinrows] = k, D1[sinrows, cosrows] = -1*k
\* for k in h[h != 0]
D1Times(h, X) ==
    LET nd == Len(X[1])
        InH(k) == \E i \in 1..Len(h) : h[i] = k /\ k # 0
        Row(t) ==
            IF t = 0 THEN ZeroRow(nd)
            ELSE LET k == (t + 1) \div 2
                 IN  IF ~InH(k) THEN ZeroRow(nd)
                     ELSE IF t = 2 * k - 1
                          THEN [c \in 1..nd |-> k * At(X, 2 * k)[c]]
                          ELSE [c \in 1..nd |-> (0 - k) * At(X, 2 * k - 1)[c]]
    IN  [t1 \in 1..Len(X) |-> Row(t1 - 1)]

RECURSIVE MatrixPowerTimes(_, _, _)
\* np.linalg.matrix_power(D1, order) @ X0full
MatrixPowerTimes(h, order, X) ==
    IF order = 0 THEN X
    ELSE D1Times(h, MatrixPowerTimes(h, order - 1, X))

Cx(re, im) == [re |-> re, im |-> im]

Conj(z) == Cx(z.re, 0 - z.im)

\* a count of harmonics rounded up
Nht_up(Nt) == (Nt + 1) \div 2 - 1

\* int(Nt/2 - 1) for Nt >= 2
Nht(Nt) == Nt \div 2 - 1

\* np.vstack((X0full, np.zeros((2*(Nht-Nh), nd))))
Pad(X, Nht_) ==
    [t1 \in 1..(2 * Nht_ + 1) |-> IF t1 <= Len(X) THEN X[t1] ELSE ZeroRow(Len(X[1]))]

\* the Fourier coefficients Xf of lines 211-216 with the mirrored half
\* not conjugated
Coefficients_mirror(X, Nht_) ==
    LET nd == Len(X[1])
        Nt == 2 * Nht_ + 2
        Bin(m) ==
            IF m = 0 THEN [c \in 1..nd |-> Cx(2 * At(X, 0)[c] * (Nt \div 2), 0)]
            ELSE IF m <= Nht_
            THEN [c \in 1..nd |-> Cx(At(X, 2 * m - 1)[c] * (Nt \div 2),
                                     (0 - At(X, 2 * m)[c]) * (Nt \div 2))]
            ELSE IF m = Nht_ + 1 THEN [c \in 1..nd |-> Cx(0, 0)]
            ELSE [c \in 1..nd |-> Cx(At(X, 2 * (Nt - m) - 1)[c] * (Nt \div 2),
                                     (0 - At(X, 2 * (Nt - m))[c]) * (Nt \div 2))]
    IN  [m1 \in 1..Nt |-> Bin(m1 - 1)]

\* the Fourier coefficients Xf of lines 211-216: 2*X0full[0], cos - 1j*sin
\* upwards, a zero row, cos + 1j*sin downwards, all times Nt/2
Coefficients(X, Nht_) ==
    LET nd == Len(X[1])
        Nt == 2 * Nht_ + 2
        Bin(m) ==
            IF m = 0 THEN [c \in 1..nd |-> Cx(2 * At(X, 0)[c] * (Nt \div 2), 0)]
            ELSE IF m <= Nht_
            THEN [c \in 1..nd |-> Cx(At(X, 2 * m - 1)[c] * (Nt \div 2),
                                     (0 - At(X, 2 * m)[c]) * (Nt \div 2))]
            ELSE IF m = Nht_ + 1 THEN [c \in 1..nd |-> Cx(0, 0)]
            ELSE [c \in 1..nd |-> Cx(At(X, 2 * (Nt - m) - 1)[c] * (Nt \div 2),
                                     At(X, 2 * (Nt - m))[c] * (Nt \div 2))]
    IN  [m1 \in 1..Nt |-> Bin(m1 - 1)]

\* np.real(np.fft.ifft(Xf, axis=0)), held by twice its transform
RealIfft(Xf) ==
    LET Nt == Len(Xf)
    IN  [m1 \in 1..Nt |->
            [c \in 1..Len(Xf[1]) |->
                LET z == Xf[m1][c]
                    y == Conj(At(Xf, (Nt - (m1 - 1)) % Nt)[c])
                IN  Cx(z.re + y.re, z.im + y.im)]]

\* time_series_deriv with Nt = 2*Nh + 1 let through
time_series_deriv_weak(Nt, h, X0, order) ==
    IF ~ZerothFirst(h) THEN [raised |-> "zeroth_first", x_t |-> <<>>]
    ELSE IF ~(Nt >= 2 * MaxHarmonic(h) + 1)
    THEN [raised |-> "truncating", x_t |-> <<>>]
    ELSE LET X0full == MatrixPowerTimes(h, order, Place(h, X0))
         IN  [raised |-> "none",
              x_t |-> RealIfft(Coefficients(Pad(X0full, Nht(Nt)), Nht(Nt)))]

\* time_series_deriv: the error raised, if any, and the series
time_series_deriv(Nt, h, X0, order) ==
    IF ~ZerothFirst(h) THEN [raised |-> "zeroth_first", x_t |-> <<>>]
    ELSE IF ~(Nt > 2 * MaxHarmonic(h) + 1)
    THEN [raised |-> "truncating", x_t |-> <<>>]
    ELSE LET X0full == MatrixPowerTimes(h, order, Place(h, X0))
         IN  [raised |-> "none",
              x_t |-> RealIfft(Coefficients(Pad(X0full, Nht(Nt)), Nht(Nt)))]

\* np.real(xf[m, :]) / den and -np.imag(xf[m, :]) / den for xf = fft(x_t)
RealOver(x_t, m, den) ==
    [c \in 1..Len(x_t[1]) |-> Rat(At(x_t, m)[c].re, 2 * den)]

MinusImagOver(x_t, m, den) ==
    [c \in 1..Len(x_t[1]) |-> Rat(0 - At(x_t, m)[c].im, 2 * den)]

\* get_fourier_coeff for a list h with ZerothFirst(h)
get_fourier_coeff(h, x_t) ==
    LET Nt == Len(x_t)
        zi == Zi(h)
        Row(r) ==
            IF r = 0 /\ zi = 1 THEN RealOver(x_t, 0, Nt)
            ELSE LET i == (r - zi) \div 2
                     hi == At(h, i + zi)
                 IN  IF r = 2 * i + zi
                     THEN RealOver(x_t, hi, Nt \div 2)
                     ELSE MinusImagOver(x_t, hi, Nt \div 2)
    IN  [r1 \in 1..ComponentCount(h) |-> Row(r1 - 1)]

\* np.zeros((n, n))
Zeros(n) == [r \in 1..n |-> [c \in 1..n |-> 0]]

\* s*B for a number s
Scale(s, B) == [r \in 1..Len(B) |-> [c \in 1..Len(B) |-> s * B[r][c]]]

\* K + s*M
PlusScaled(K, s, M) ==
    [r \in 1..Len(K) |-> [c \in 1..Len(K) |-> K[r][c] + s * M[r][c]]]

\* E[nd*br:nd*(br+1), nd*bc:nd*(bc+1)] = B
SetBlock(E, br, bc, B) ==
    LET nd == Len(B)
    IN  [r \in 1..Len(E) |-> [c \in 1..Len(E) |->
            IF /\ nd * br < r /\ r <= nd * (br + 1)
               /\ nd * bc < c /\ c <= nd * (bc + 1)
            THEN B[r - nd * br][c - nd * bc]
            ELSE E[r][c]]]

\* the body of the loop over hind with the damping blocks of opposite sign
LoopBody_flipped(ED, hind, M, C, K, w, h, calc_grad, include_KM) ==
    LET zi == Zi(h)
        k == At(h, hind)
        cs == hind * 2 - zi
        sn == hind * 2 - zi + 1
        E1 == SetBlock(SetBlock(ED.E, cs, sn, Scale(0 - k * w, C)),
                       sn, cs, Scale(k * w, C))
        E2 == IF include_KM
              THEN SetBlock(SetBlock(E1, cs, cs, PlusScaled(K, 0 - (k * w) * (k * w), M)),
                            sn, sn, PlusScaled(K, 0 - (k * w) * (k * w), M))
              ELSE E1
        D1 == SetBlock(SetBlock(ED.dEdw, cs, sn, Scale(k, C)),
                       sn, cs, Scale(0 - k, C))
        D2 == IF include_KM
              THEN SetBlock(SetBlock(D1, cs, cs, Scale(0 - 2 * w * k * k, M)),
                            sn, sn, Scale(0 - 2 * w * k * k, M))
              ELSE D1
    IN  [E |-> E2, dEdw |-> IF calc_grad THEN D2 ELSE ED.dEdw]

\* the body of the loop over hind (lines 90-131)
LoopBody(ED, hind, M, C, K, w, h, calc_grad, include_KM) ==
    LET zi == Zi(h)
        k == At(h, hind)
        cs == hind * 2 - zi
        sn == hind * 2 - zi + 1
        E1 == SetBlock(SetBlock(ED.E, cs, sn, Scale(k * w, C)),
                       sn, cs, Scale(0 - k * w, C))
        E2 == IF include_KM
              THEN SetBlock(SetBlock(E1, cs, cs, PlusScaled(K, 0 - (k * w) * (k * w), M)),
                            sn, sn, PlusScaled(K, 0 - (k * w) * (k * w), M))
              ELSE E1
        D1 == SetBlock(SetBlock(ED.dEdw, cs, sn, Scale(k, C)),
                       sn, cs, Scale(0 - k, C))
        D2 == IF include_KM
              THEN SetBlock(SetBlock(D1, cs, cs, Scale(0 - 2 * w * k * k, M)),
                            sn, sn, Scale(0 - 2 * w * k * k, M))
              ELSE D1
    IN  [E |-> E2, dEdw |-> IF calc_grad THEN D2 ELSE ED.dEdw]

RECURSIVE HarmonicLoop(_, _, _, _, _, _, _, _, _)
\* for hind in range(zi, h.shape[0])
HarmonicLoop(ED, hind, M, C, K, w, h, calc_grad, include_KM) ==
    IF hind >= Len(h) THEN ED
    ELSE HarmonicLoop(LoopBody(ED, hind, M, C, K, w, h, calc_grad, include_KM),
                      hind + 1, M, C, K, w, h, calc_grad, include_KM)

\* harmonic_stiffness: the error raised, if any, and the tuple returned.
\* A zero harmonic behind the first place asks for a block beyond E and the
\* assignment of that block fails.
harmonic_stiffness(M, C, K, w, h, calc_grad, only_C) ==
    IF Nhc(h).raised THEN [raised |-> "repeated", len |-> 0, E |-> <<>>, dEdw |-> <<>>]
    ELSE IF ~ZerothFirst(h)
    THEN [raised |-> "broadcast", len |-> 0, E |-> <<>>, dEdw |-> <<>>]
    ELSE LET nd == Len(C)
             n == Nhc(h).value * nd
             include_KM == ~only_C
             E0 == IF Zi(h) = 1 /\ include_KM
                   THEN SetBlock(Zeros(n), 0, 0, K) ELSE Zeros(n)
             ED == HarmonicLoop([E |-> E0, dEdw |-> Zeros(n)], Zi(h),
                                M, C, K, w, h, calc_grad, include_KM)
         IN  IF calc_grad
             THEN [raised |-> "none", len |-> 2, E |-> ED.E, dEdw |-> ED.dEdw]
             ELSE [raised |-> "none", len |-> 1, E |-> ED.E, dEdw |-> <<>>]

\* largest number of unknowns behind the harmonic unknowns of X
MaxExtras == 4

RECURSIVE SumAbs(_, _, _)
\* np.abs(X[a:b]).sum() for 0 <= a <= b <= len(X)
SumAbs(X, a, b) == IF a >= b THEN 0 ELSE Abs(At(X, a)) + SumAbs(X, a + 1, b)

\* q[:k] of python: a negative k counts from the end
SliceTo(q, k) ==
    LET n == IF k < 0 THEN IMax(Len(q) + k, 0) ELSE IF k > Len(q) THEN Len(q) ELSE k
    IN  SubSeq(q, 1, n)

\* the floors of lines 301-311: delta.d holds np.atleast_2d(delta), one
\* entry for a scalar
Floors(X, Ndof, h, delta, m) ==
    IF delta.kind = "float" THEN [i \in 1..Len(X) |-> delta.d[1]]
    ELSE LET extras == IF m > 0 THEN 1 ELSE 0
             cols == Len(h) + extras
             full == [i \in 1..(2 * Ndof * cols) |->
                        IF Len(delta.d) = 1 THEN delta.d[1]
                        ELSE delta.d[(i - 1) \div (2 * Ndof) + 1]]
             cut == SubSeq(full, Ndof * Zi(h) + 1, Len(full))
         IN  IF m > 0 THEN SliceTo(cut, m - 2 * Ndof) ELSE cut

\* a block set to the mean of |X| without the floor
ConditionBlock_mean(Cond, X, a, b) ==
    [i \in 1..Len(Cond) |->
        IF a < i /\ i <= b THEN Rat(SumAbs(X, a, b), b - a) ELSE Cond[i]]

\* CtoP[inds] = np.maximum(CtoP[inds], np.mean(np.abs(X[inds]))) for
\* inds = slice(a, b)
ConditionBlock(Cond, X, a, b) ==
    [i \in 1..Len(Cond) |->
        IF a < i /\ i <= b THEN RMax(Cond[i], Rat(SumAbs(X, a, b), b - a))
        ELSE Cond[i]]

RECURSIVE ConditionLoop(_, _, _, _, _)
\* for hindex in range(len(h)), for h with the zeroth harmonic first
ConditionLoop(Cond, X, Ndof, h, hindex) ==
    IF hindex >= Len(h) THEN Cond
    ELSE LET haszero == Zi(h)
             a == IF At(h, hindex) = 0 THEN 0 ELSE (2 * hindex - haszero) * Ndof
             b == IF At(h, hindex) = 0 THEN Ndof ELSE (2 * hindex + 2 - haszero) * Ndof
         IN  ConditionLoop(ConditionBlock(Cond, X, a, b), X, Ndof, h, hindex + 1)

\* CtoP[-m:] = np.maximum(CtoP[-m:], np.abs(X[-m:])) where Cond has at
\* least m entries
ConditionExtras(Cond, X, m) ==
    [i \in 1..Len(Cond) |->
        IF i > Len(Cond) - m
        THEN RMax(Cond[i], Rat(Abs(X[Len(X) - (Len(Cond) - i)]), 1))
        ELSE Cond[i]]

\* harmonic_wise_conditioning: the error raised, if any, and CtoP.  With
\* fewer than m floors left by line 311 the arrays of line 328 have
\* different shapes (m >= 2 there) and the call fails.
harmonic_wise_conditioning(X, Ndof, h, delta) ==
    IF Nhc(h).raised THEN [raised |-> "repeated", CtoP |-> <<>>]
    ELSE LET m == Len(X) - Nhc(h).value * Ndof
             cols == Len(h) + (IF m > 0 THEN 1 ELSE 0)
         IN  IF delta.kind # "float" /\ Len(delta.d) \notin {1, cols}
             THEN [raised |-> "broadcast", CtoP |-> <<>>]
             ELSE IF ~ZerothFirst(h) THEN [raised |-> "zeroth_first", CtoP |-> <<>>]
             ELSE LET C1 == ConditionLoop(Floors(X, Ndof, h, delta, m), X, Ndof, h, 0)
                  IN  IF m > 0 /\ Len(C1) < m
                      THEN [raised |-> "broadcast", CtoP |-> <<>>]
                      ELSE IF m > 0
                      THEN [raised |-> "none", CtoP |-> ConditionExtras(C1, X, m)]
                      ELSE [raised |-> "none", CtoP |-> C1]

\* the vectors X of a length: entries between -2 and 2
Pattern(p, n) == [i \in 1..n |-> ((p * i) % 5) - 2]

\* delta: a python float, another scalar, a sequence of cols entries
Deltas(cols) ==
    {[kind |-> k, d |-> <<v>>] : k \in {"float", "scalar"}, v \in {Rat(0, 1), Rat(3, 2)}}
    \cup {[kind |-> "sequence", d |-> [j \in 1..cols |-> Rat((q * j) % 4, 2)]] : q \in {1, 3}}

\* the lists of harmonics passed: with and without the zeroth harmonic,
\* out of order, with the zeroth harmonic behind the first place, with
\* repeated harmonics
HarmonicLists ==
    {<<0>>, <<1>>, <<2>>, <<0, 1>>, <<0, 2>>, <<1, 2>>, <<2, 1>>, <<0, 1, 2>>,
     <<1, 0>>, <<1, 1>>, <<0, 0>>, <<0, 2, 2>>}

CoefficientValues == {0 - 1, 2}

\* the matrices with rows rows and nd columns
Matrices(rows, nd, vals) == [1..rows -> [1..nd -> vals]]

SquareMatrices(nd) ==
    IF nd = 1 THEN {<<<<0>>>>, <<<<1>>>>, <<<<3>>>>}
    ELSE {<<<<0, 0>>, <<0, 0>>>>, <<<<1, 2>>, <<3, 4>>>>, <<<<2, 0 - 1>>, <<0, 5>>>>}

HutilsInit ==
    /\ ContinuationOff
    /\ SolverOff
    /\ ElementOff
    /\ hu = [pc |-> "idle"]

\* Nhc(h)
CallNhc ==
    /\ hu.pc \in {"idle", "returned"}
    /\ \E h \in HarmonicLists :
          hu' = [pc |-> "Nhc", h |-> h, result |-> Nhc(h)]
    /\ UNCHANGED <<contVars, solverVars, elementVars>>

\* time_series_deriv(Nt, h, X0, order)
CallTimeSeriesDeriv ==
    /\ hu.pc \in {"idle", "returned"}
    /\ \E Nt \in 1..MaxNt, h \in HarmonicLists, nd \in {1, 2}, order \in 0..MaxOrder :
          \E X0 \in Matrices(ComponentCount(h), nd, CoefficientValues) :
             hu' = [pc |-> "time_series_deriv", Nt |-> Nt, h |-> h, X0 |-> X0,
                    order |-> order,
                    result |-> time_series_deriv(Nt, h, X0, order)]
    /\ UNCHANGED <<contVars, solverVars, elementVars>>

\* get_fourier_coeff(h, x_t) on the series just returned
CallGetFourierCoeff ==
    /\ hu.pc = "time_series_deriv"
    /\ hu.result.raised = "none"
    /\ hu' = [pc |-> "get_fourier_coeff", Nt |-> hu.Nt, h |-> hu.h, X0 |-> hu.X0,
              order |-> hu.order, x_t |-> hu.result.x_t,
              result |-> get_fourier_coeff(hu.h, hu.result.x_t)]
    /\ UNCHANGED <<contVars, solverVars, elementVars>>

\* harmonic_stiffness(M, C, K, w, h, calc_grad, only_C)
CallHarmonicStiffness ==
    /\ hu.pc \in {"idle", "returned"}
    /\ \E nd \in {1, 2}, w \in {1, 2}, h \in HarmonicLists,
          calc_grad \in BOOLEAN, only_C \in BOOLEAN :
          \E M \in SquareMatrices(nd), C \in SquareMatrices(nd), K \in SquareMatrices(nd) :
             hu' = [pc |-> "harmonic_stiffness", M |-> M, C |-> C, K |-> K,
                    w |-> w, h |-> h, calc_grad |-> calc_grad, only_C |-> only_C,
                    result |-> harmonic_stiffness(M, C, K, w, h, calc_grad, only_C)]
    /\ UNCHANGED <<contVars, solverVars, elementVars>>

\* harmonic_wise_conditioning(X, Ndof, h, delta)
CallHarmonicWiseConditioning ==
    /\ hu.pc \in {"idle", "returned"}
    /\ \E Ndof \in {1, 2}, h \in HarmonicLists, m \in 0..MaxExtras, p \in 1..3 :
          \E delta \in Deltas(Len(h) + (IF m > 0 THEN 1 ELSE 0)) :
             LET X == Pattern(p, Ndof * ComponentCount(h) + m)
             IN  hu' = [pc |-> "harmonic_wise_conditioning", X |-> X, Ndof |-> Ndof,
                        h |-> h, delta |-> delta, m |-> m,
                        result |-> harmonic_wise_conditioning(X, Ndof, h, delta)]
    /\ UNCHANGED <<contVars, solverVars, elementVars>>

\* back in the caller
Return ==
    /\ hu.pc \notin {"off", "idle", "returned"}
    /\ hu' = [pc |-> "returned"]
    /\ UNCHANGED <<contVars, solverVars, elementVars>>

HutilsNext ==
    \/ CallNhc
    \/ CallTimeSeriesDeriv
    \/ CallGetFourierCoeff
    \/ CallHarmonicStiffness
    \/ CallHarmonicWiseConditioning
    \/ Return

HutilsSpec == HutilsInit /\ [][HutilsNext]_vars

----------------------------------------------------------------------------
(***************************************************************************)
(* Claims C16 to C20                                                       *)
(***************************************************************************)

\* C16: Nhc(h) is twice the number of nonzero entries of h plus the number
\* of zero entries when the entries of h are all distinct, and fails when h
\* has a repeated harmonic
C16_ComponentCount ==
    hu.pc = "Nhc" =>
        LET nonzero == Cardinality({i \in DOMAIN hu.h : hu.h[i] > 0})
            zero == Cardinality({i \in DOMAIN hu.h : hu.h[i] = 0})
            repeated == \E i, j \in DOMAIN hu.h : i # j /\ hu.h[i] = hu.h[j]
        IN  /\ repeated => hu.result.raised
            /\ ~repeated => /\ ~hu.result.raised
                            /\ hu.result.value = 2 * nonzero + zero

\* a count with both kinds of entries, and a failed call
C16_Witness ==
    /\ hu.pc = "Nhc"
    /\ hu.h = <<0, 1, 2>>
    /\ hu.result.value = 5

\* Nt <= 2*max(h) + 1
TooFewTimes(Nt, h) == \E i \in DOMAIN h : Nt <= 2 * h[i] + 1

\* C17: time_series_deriv(Nt, h, X0, order) fails for every input with
\* Nt <= 2*max(h) + 1 and does not raise the error about truncated
\* harmonics when Nt > 2*max(h) + 1, whatever the order
C17_AliasingError ==
    hu.pc = "time_series_deriv" =>
        /\ TooFewTimes(hu.Nt, hu.h) => hu.result.raised # "none"
        /\ ~TooFewTimes(hu.Nt, hu.h) => hu.result.raised # "truncating"

\* a second derivative asked for with Nt = 2*max(h) + 1
C17_Witness ==
    /\ hu.pc = "time_series_deriv"
    /\ hu.h = <<1, 2>>
    /\ hu.Nt = 5
    /\ hu.order = 2
    /\ hu.result.raised = "truncating"

Returned == hu.pc = "time_series_deriv" /\ hu.result.raised = "none"

Columns == \A m \in DOMAIN hu.result.x_t : Len(hu.result.x_t[m]) = Len(hu.X0[1])

\* C18: for every Nt > 2*max(h) + 1, even or odd, time_series_deriv
\* returns exactly Nt rows and one column per column of X0
C18_NtRows ==
    Returned => Len(hu.result.x_t) = hu.Nt /\ Columns

\* C18 amended: Nt rows for an even Nt, Nt - 1 rows for an odd Nt, one
\* column per column of X0
C18_EvenRows ==
    Returned =>
        /\ hu.Nt % 2 = 0 => Len(hu.result.x_t) = hu.Nt
        /\ hu.Nt % 2 = 1 => Len(hu.result.x_t) = hu.Nt - 1
        /\ Columns

\* an odd number of times asked for, two columns
C18_Witness ==
    /\ Returned
    /\ hu.Nt = 5
    /\ hu.h = <<0, 1>>
    /\ Len(hu.X0[1]) = 2
    /\ Len(hu.result.x_t) = 4

\* a matrix of numbers read as a matrix of fractions
AsRationals(X) == [r \in DOMAIN X |-> [c \in DOMAIN X[r] |-> Rat(X[r][c], 1)]]

NoRepeats(h) == \A i, j \in DOMAIN h : i # j => h[i] # h[j]

\* C19: for h with the zeroth harmonic first if present and no repeated
\* harmonic, every X0 and every Nt > 2*max(h) + 1,
\* get_fourier_coeff(h, time_series_deriv(Nt, h, X0, 0)) is X0
C19_RoundTrip ==
    (hu.pc = "get_fourier_coeff" /\ hu.order = 0 /\ NoRepeats(hu.h)) =>
        hu.result = AsRationals(hu.X0)

\* the round trip of five rows that are not all alike, two columns
C19_Witness ==
    /\ hu.pc = "get_fourier_coeff"
    /\ hu.order = 0
    /\ hu.h = <<0, 1, 2>>
    /\ hu.Nt = 6
    /\ hu.X0 = <<<<2, 0 - 1>>, <<0 - 1, 2>>, <<2, 2>>, <<2, 0 - 1>>, <<0 - 1, 0 - 1>>>>
    /\ hu.result = AsRationals(hu.X0)

\* the block of E in block row br and block column bc (counted from 0)
\* that the harmonics h ask for, with stiffness Ke and mass Me
ExpectedEntry(r, c, nd, Me, Ce, Ke, w, h) ==
    LET zi == IF h[1] = 0 THEN 1 ELSE 0
        br == (r - 1) \div nd
        bc == (c - 1) \div nd
        i == ((r - 1) % nd) + 1
        j == ((c - 1) % nd) + 1
        \* place in h (counted from 1) and part (0 cosine, 1 sine) of a block
        PlaceOf(b) == IF zi = 1 /\ b = 0 THEN 1 ELSE (b - zi) \div 2 + zi + 1
        PartOf(b) == IF zi = 1 /\ b = 0 THEN 0 ELSE (b - zi) % 2
        k == h[PlaceOf(br)]
    IN  IF PlaceOf(br) # PlaceOf(bc) THEN 0
        ELSE IF k = 0 THEN Ke[i][j]
        ELSE IF PartOf(br) = PartOf(bc) THEN Ke[i][j] - k * w * k * w * Me[i][j]
        ELSE IF PartOf(br) = 0 THEN k * w * Ce[i][j]
        ELSE 0 - k * w * Ce[i][j]

ExpectedE(Me, Ce, Ke, w, h) ==
    LET nd == Len(Ce)
        n == nd * (2 * Len(h) - (IF h[1] = 0 THEN 1 ELSE 0))
    IN  [r \in 1..n |-> [c \in 1..n |-> ExpectedEntry(r, c, nd, Me, Ce, Ke, w, h)]]

StiffnessReturned == hu.pc = "harmonic_stiffness" /\ hu.result.raised = "none"

\* C20: E is block diagonal over the harmonics in the order of h, with K
\* for the zeroth harmonic and [[K-(kw)^2 M, +kwC], [-kwC, K-(kw)^2 M]] for
\* a harmonic k # 0; with only_C the result is the one for M = 0 and
\* K = 0; with calc_grad false a tuple of one entry, the same E, is returned
C20_BlockStructure ==
    StiffnessReturned =>
        LET Z == Zeros(Len(hu.C))
        IN  /\ ~hu.only_C => hu.result.E = ExpectedE(hu.M, hu.C, hu.K, hu.w, hu.h)
            /\ hu.only_C =>
                  /\ hu.result.E = ExpectedE(Z, hu.C, Z, hu.w, hu.h)
                  /\ hu.result.E =
                        harmonic_stiffness(Z, hu.C, Z, hu.w, hu.h, hu.calc_grad, FALSE).E
            /\ hu.calc_grad => hu.result.len = 2
            /\ ~hu.calc_grad =>
                  /\ hu.result.len = 1
                  /\ hu.result.E =
                        harmonic_stiffness(hu.M, hu.C, hu.K, hu.w, hu.h, TRUE, hu.only_C).E

\* two degrees of freedom, the zeroth and two more harmonics, all three
\* matrices present
C20_Witness ==
    /\ StiffnessReturned
    /\ hu.h = <<0, 1, 2>>
    /\ hu.w = 2
    /\ ~hu.only_C
    /\ hu.calc_grad
    /\ hu.M = <<<<1, 2>>, <<3, 4>>>>
    /\ hu.C = <<<<2, 0 - 1>>, <<0, 5>>>>
    /\ hu.K = <<<<1, 2>>, <<3, 4>>>>
    /\ hu.result.E[3][6] = 0 - 2
    /\ hu.result.E[6][3] = 0
    /\ hu.result.E[6][4] = 0 - 10

----------------------------------------------------------------------------
(***************************************************************************)
(* Claims C21 and C22                                                      *)
(***************************************************************************)

Conditioned == hu.pc = "harmonic_wise_conditioning" /\ hu.result.raised = "none"

\* the number of harmonic unknowns of the call
HarmonicUnknowns == hu.Ndof * (2 * Len(hu.h) - (IF hu.h[1] = 0 THEN 1 ELSE 0))

\* the place in h (from 1) of the harmonic that entry i of X belongs to
HarmonicOf(i) ==
    LET z == IF hu.h[1] = 0 THEN 1 ELSE 0
    IN  IF z = 1 /\ i <= hu.Ndof THEN 1
        ELSE (i - 1 - z * hu.Ndof) \div (2 * hu.Ndof) + 1 + z

\* the delta floor of entry i
FloorOf(i) ==
    IF Len(hu.delta.d) = 1 THEN hu.delta.d[1]
    ELSE IF i > HarmonicUnknowns THEN hu.delta.d[Len(hu.delta.d)]
    ELSE hu.delta.d[HarmonicOf(i)]

\* the entries of the block of entry i
BlockOf(i) == {j \in 1..HarmonicUnknowns : HarmonicOf(j) = HarmonicOf(i)}

RECURSIVE SumAbsOver(_)
SumAbsOver(S) ==
    IF S = {} THEN 0
    ELSE LET j == CHOOSE k \in S : TRUE
         IN  Abs(hu.X[j]) + SumAbsOver(S \ {j})

\* C21: every entry returned by harmonic_wise_conditioning is at least its
\* delta floor; the entries of one harmonic's block all equal the larger
\* of the floor and the mean of |X| over the block; each extra entry equals
\* the larger of the floor and |X_i|
C21_Conditioning ==
    Conditioned =>
        \A i \in DOMAIN hu.result.CtoP :
            /\ RLe(FloorOf(i), hu.result.CtoP[i])
            /\ i <= HarmonicUnknowns =>
                  hu.result.CtoP[i] =
                     RMax(FloorOf(i), Rat(SumAbsOver(BlockOf(i)), Cardinality(BlockOf(i))))
            /\ i > HarmonicUnknowns =>
                  hu.result.CtoP[i] = RMax(FloorOf(i), Rat(Abs(hu.X[i]), 1))

\* two degrees of freedom, the zeroth and one more harmonic, three extras,
\* a floor for each; one block above its floor and one on it
C21_Witness ==
    /\ Conditioned
    /\ hu.Ndof = 2
    /\ hu.h = <<0, 1>>
    /\ hu.m = 3
    /\ hu.delta.kind = "sequence"
    /\ Len(hu.result.CtoP) = 9
    /\ \E i, j \in DOMAIN hu.result.CtoP :
          /\ hu.result.CtoP[i] = FloorOf(i)
          /\ RLt(FloorOf(j), hu.result.CtoP[j])

ValidHarmonics(h) ==
    /\ \A i, j \in DOMAIN h : i # j => h[i] # h[j]
    /\ \A i \in DOMAIN h : h[i] = 0 => i = 1

\* C22: harmonic_wise_conditioning returns a vector as long as X for every
\* Ndof, every valid h, every number m of extras (m >= 2*Ndof too) and
\* delta a float, another scalar or a sequence
C22_SameLength ==
    (hu.pc = "harmonic_wise_conditioning" /\ ValidHarmonics(hu.h)) =>
        /\ hu.result.raised = "none"
        /\ Len(hu.result.CtoP) = Len(hu.X)

----------------------------------------------------------------------------
(***************************************************************************)
(* Claims C23 to C27                                                       *)
(***************************************************************************)

\* a corrector solve has failed
FailedSolve == pc = "solved" /\ ~sol.success

\* the step from a failed solve to the next solve with the same FracLam
RetryStep == FailedSolve /\ nsolveCalls' = nsolveCalls + 1

\* the step to the next FracLam value
LadderStep == fracLam_ind' = fracLam_ind + 1

HalvedDs == RMax(RMul(ds, Rat(1, 2)), config.dsmin)

C23_Step ==
    /\ RetryStep =>
          /\ ds' = HalvedDs
          /\ fracLam_ind' = fracLam_ind
          /\ config'.FracLam = config.FracLam
          /\ dirC' = dirC
          /\ step' = step
          /\ predictCalls' = predictCalls
    /\ (FailedSolve /\ RLt(config.dsmin, ds)) => RetryStep
    /\ LadderStep => FailedSolve /\ RLe(ds, config.dsmin)
    /\ (pc = "solved" /\ sol.success) =>
          /\ nsolveCalls' = nsolveCalls
          /\ predictCalls' = predictCalls
          /\ step' = step + 1

\* C23: after a failed corrector solve the next attempt uses
\* ds = max(ds/2, dsmin) with the same FracLam and the same predicted
\* direction; the ladder moves on only after a solve that failed with
\* ds <= dsmin; a successful solve ends the halving and the ladder
C23_HalvingThenLadder == [][C23_Step]_vars

\* a solve that succeeded with the second FracLam value after ds was
\* halved under the first
C23_Witness ==
    /\ pc = "solved"
    /\ sol.success
    /\ fracLam_ind = 1
    /\ RLt(ds, dsEntry)

\* a later FracLam value of the ladder is about to be tried or was tried
LaterLadderValue == pc \in {"predict", "solved"} /\ fracLam_ind > 0

\* C24: when the ladder advances to the next FracLam value, the first
\* corrector attempt with it uses the ds the step had at its entry, not
\* the value reached by halving
C24_LadderRestartsDs == LaterLadderValue => ds = dsEntry

\* C24 amended: the later FracLam values are tried with the ds the
\* halving ended with, the smaller of dsmin and the ds at the entry to the
\* step, and with no other
C24_LadderKeepsDs == LaterLadderValue => ds = RMin(dsEntry, config.dsmin)

\* the second FracLam value tried at dsmin, below the ds of the entry
C24_Witness ==
    /\ pc = "solved"
    /\ fracLam_ind = 1
    /\ ds = config.dsmin
    /\ RLt(ds, dsEntry)
    /\ ~sol.success

\* FracLamList starts with the FracLam of the construction
PrimaryFirst == config.FracLamList[1] = default_config(ctor_ds0).FracLam

C25_Step ==
    /\ PrimaryFirst
    /\ PrimaryFirst'
    /\ config'.FracLamList = config.FracLamList
    /\ (pc = "loop" /\ pc' = "predict") => fracLam_ind' = 0
    /\ (predictCalls' # predictCalls /\ pc = "predict") =>
          config'.FracLam = config.FracLamList[fracLam_ind + 1]
    /\ fracLam_ind' # fracLam_ind =>
          \/ fracLam_ind' = fracLam_ind + 1 /\ step' = step /\ ~sol.success
          \/ fracLam_ind' = 0 /\ pc = "loop"
    /\ (pc = "solved" /\ sol.success) =>
          /\ fracLam_ind' = fracLam_ind
          /\ config'.FracLam = config.FracLam
          /\ pc' = "loop"

\* C25: at every step the FracLam values are tried in the order of
\* FracLamList from index 0, FracLamList[0] is the FracLam of the
\* construction whatever list was passed, whichever value succeeded at
\* earlier steps, and no value behind the first that converges is tried
C25_LadderOrder == [][C25_Step]_vars

\* a step begun at index 0 after a step that the second value solved
C25_Witness ==
    /\ pc = "predict"
    /\ fracLam_ind = 0
    /\ step = 2
    /\ "FracLamList" \in userKeys
    /\ Len(config.FracLamList) >= 2
    /\ config.FracLam = config.FracLamList[2]
    /\ PrimaryFirst

\* C26: in every predictor call of a step the reference row dirC_prev is
\* the direction used for the previously accepted step (the synthetic
\* direction for the first step), never a direction computed during a
\* failed ladder attempt of the same step
C26_ReferenceRow == pc = "predict" => dirC = dirCEntry

\* The runs with a static conditioning vector, no callback, the
\* orthogonal corrector and no backtracking limit; every step size
\* setting, FracLamList, MaxSteps, verbosity and pair lam0, lam1.
TerminationInit ==
    /\ Init
    /\ ~config.DynamicCtoP
    /\ ~config.callback
    /\ config.corrector = "Ortho"
    /\ config.backtrackStop = Inf
    /\ setCtoPto1

\* Every call of fun, of nsolve and of the callback returns: each step of
\* continuation that can be taken is taken.
FairSpec == TerminationInit /\ [][Next]_vars /\ WF_vars(Next)

Returned_continuation == pc \in {"done", "abort_initial", "abort_corrector"}

C27_Step ==
    /\ step' <= config'.MaxSteps
    /\ (pc' \in {"predict", "solved"}) => fracLam_ind' < Len(config'.FracLamList)
    /\ (predictCalls' # predictCalls /\ pc = "predict") =>
          pc' \in {"solved", "abort_corrector"}
    /\ RetryStep => RLt(ds', ds) /\ RLe(config.dsmin, ds')
    /\ RLt(Rat(0, 1), config.dsmin)

\* C27: with dsmin > 0 and every call returning, continuation terminates:
\* at most MaxSteps - 1 steps, at most len(FracLamList) predictor calls in
\* a step, and for each FracLam value finitely many corrector solves, ds
\* falling at each until it is dsmin
C27_Terminates == [][C27_Step]_vars /\ <>Returned_continuation

\* the run returned after a step in which ds was halved down to dsmin
\* under every FracLam value
C27_Witness ==
    /\ pc = "done"
    /\ ~sol.success
    /\ ds = config.dsmin
    /\ RLt(ds, dsEntry)
    /\ fracLam_ind + 1 = Len(config.FracLamList)
    /\ fracLam_ind > 0

----------------------------------------------------------------------------
(***************************************************************************)
(* Claims C28 to C30                                                       *)
(***************************************************************************)

\* iteration i of the loop, counted from 0, is a full Newton iteration
Reforms(i) == i % solver.config.reform_freq = 0

NRIterations == {k \in Iterations : Reforms(k - 1)}

\* an iteration that ran to the end of an evaluation of fun: nfev goes up
\* by one, njev goes up and dRdX is replaced exactly in the iterations with
\* i mod reform_freq = 0
C28_Step ==
    (ns.pc = "loop" /\ ns'.pc # "raised") =>
        /\ ns'.sol.nfev = ns.sol.nfev + 1
        /\ Len(ns'.hist) = Len(ns.hist) + 1
        /\ ns'.hist[Len(ns'.hist)].curr_iter
              = (IF Reforms(ns.i) THEN "NR" ELSE "BFGS")
        /\ ns'.sol.njev = ns.sol.njev + (IF Reforms(ns.i) THEN 1 ELSE 0)
        /\ ~Reforms(ns.i) => ns'.dRdX = ns.dRdX

C28_Returned ==
    ns.pc = "returned" =>
        /\ ns.sol.nfev = Len(ns.hist)
        /\ solver.config.max_steps >= 1 =>
              (1 <= ns.sol.nfev /\ ns.sol.nfev <= solver.config.max_steps)
        /\ ns.sol.njev = Cardinality(NRIterations)
        /\ ns.sol.njev <= ns.sol.nfev
        /\ solver.config.reform_freq = 1 => ns.sol.njev = ns.sol.nfev

\* C28: iteration i of nsolve evaluates and factors dRdX iff
\* i mod reform_freq = 0 and is a BFGS update evaluating only R otherwise,
\* each started iteration evaluates fun once; at return nfev is the number
\* of iterations started (1 <= nfev <= max_steps), njev the number of
\* those with i mod reform_freq = 0, njev <= nfev, and njev = nfev when
\* reform_freq = 1
C28_Counters == [](C28_Returned) /\ [][C28_Step]_vars

\* a call that returned after a Newton, a BFGS and a second Newton
\* iteration
C28_Witness ==
    /\ ns.pc = "returned"
    /\ solver.config.reform_freq = 2
    /\ ns.sol.nfev = 3
    /\ ns.sol.njev = 2
    /\ ns.hist[2].curr_iter = "BFGS"
    /\ ~ns.hist[3].nan

\* the last iteration of the call, and the last one that evaluated dRdX
LastIteration == Len(ns.hist)

LastReform ==
    CHOOSE k \in Iterations :
        /\ ns.hist[k].curr_iter = "NR"
        /\ \A j \in Iterations : j > k => ns.hist[j].curr_iter = "BFGS"

SuccessfulReturn == ns.pc = "returned" /\ ns.sol.success

\* C29 as stated: on every successful return, for every reform_freq, the
\* returned R and dRdX were both evaluated at X_returned - deltaX_last,
\* and fun was never evaluated at the returned X
C29_OneStepStale ==
    SuccessfulReturn =>
        LET Xb == ns.X - ns.deltaX.v
        IN  /\ ns.hist[LastIteration].Xbefore = Xb
            /\ ns.R = fun_R_dRdX(ns.fun, Xb).R
            /\ ns.hist[LastReform].Xbefore = Xb
            /\ ns.dRdX = fun_R_dRdX(ns.fun, Xb).dRdX
            /\ \A k \in Iterations : ns.hist[k].Xbefore # ns.X

\* C29, amended: on every successful return the returned R was evaluated
\* at X_returned - deltaX_last, the iterate of the last iteration, and the
\* returned dRdX at the iterate of the last iteration i with
\* i mod reform_freq = 0, which is (i_last mod reform_freq) iterations
\* before the last one: the same iterate when reform_freq = 1, an earlier
\* one when the last iteration is a BFGS update.  fun is not evaluated
\* after the last update of X.
C29_LastEvaluations ==
    SuccessfulReturn =>
        /\ ns.hist[LastIteration].Xbefore = ns.X - ns.deltaX.v
        /\ ns.R = fun_R_dRdX(ns.fun, ns.hist[LastIteration].Xbefore).R
        /\ ns.dRdX = fun_R_dRdX(ns.fun, ns.hist[LastReform].Xbefore).dRdX
        /\ LastIteration - LastReform
              = (LastIteration - 1) % solver.config.reform_freq
        /\ solver.config.reform_freq = 1 => LastReform = LastIteration
        /\ ns.sol.nfev = LastIteration

\* a successful return whose last iteration is a BFGS update: the returned
\* dRdX is the one of the iterate before, not of X_returned - deltaX_last
C29_Witness ==
    /\ SuccessfulReturn
    /\ ns.hist[LastIteration].curr_iter = "BFGS"
    /\ ns.hist[LastReform].Xbefore # ns.X - ns.deltaX.v
    /\ ns.dRdX # fun_R_dRdX(ns.fun, ns.X - ns.deltaX.v).dRdX

\* C30: for every period of displacements, kt > 0, Fs >= 0 and u0, the
\* force history of the Jenkins slider after the two passes starting from
\* f[Nt-1] = kt*(u[Nt-1] - u0) is the steady state: a third pass, and every
\* later one, over the same samples returns the history of the second
C30_TwoPassesSteady ==
    (feCall.pc = "cycle" /\ feCall.passes > 2) =>
        feCall.ft = local_aft_jenkins(feCall.unlt, jenkins)

\* a third pass over a period in which the slider both sticks and slips
\* and whose first pass did not yet give the steady history
C30_Witness ==
    /\ feCall.pc = "cycle"
    /\ feCall.passes = 3
    /\ local_aft_jenkins_once(feCall.unlt, jenkins) # feCall.ft
    /\ \E i \in 1..Len(feCall.ft) : feCall.ft[i] = jenkins.Fs
    /\ \E i \in 1..Len(feCall.ft) : Abs(feCall.ft[i]) < jenkins.Fs

====
